---- MODULE Spec2Model ----
(***************************************************************************)
(* A model of the SPH engine of src/src/physics/sph.ts with its spatial    *)
(* grid (ParticleGrid.ts), static obstacles (StaticObject.ts), particle    *)
(* sources (ParticleSource) and particle sinks (ParticleSink).             *)
(*                                                                         *)
(* Numbers.  The engine works on IEEE doubles.  The model carries every    *)
(* real quantity (lengths, velocities, forces, densities, pressures) as an *)
(* integer count of 1/FP, rounds every product and quotient to the nearest *)
(* such count, and carries squared lengths at 1/(FP*FP).  NaN, which the   *)
(* engine produces when the boundary repulsion is evaluated at distance 0, *)
(* is carried as a flag of the particle.  Screen coordinates and the clock *)
(* (milliseconds) are integers as they are.                                *)
(***************************************************************************)
EXTENDS Integers, Sequences, FiniteSets, TLC

VARIABLES
    particles,          \* sph.ts:51   sequence of SPHParticle records
    staticObjects,      \* sph.ts:52   sequence of obstacle records
    sources,            \* sph.ts:55   sequence of ParticleSource records
    sinks,              \* sph.ts:56   sequence of ParticleSink records
    grid,               \* sph.ts:57   the ParticleGrid, or NoGrid before init
    M, K, RHO0, MU,     \* sph.ts:59-62 fluid parameters
    xmin, ymin,         \* sph.ts:65   domain bounds
    xmax, ymax,         \* sph.ts:66
    forceVelocityOn,    \* sph.ts:71
    forceVx, forceVy,   \* sph.ts:72
    forceVelocityCell,  \* sph.ts:73   null, undefined, or a cell of a grid
    now,                \* the wall clock Date.now() reads, in ms
    pc,                 \* position inside doPhysics ("idle" between calls)
    currentTime,        \* sph.ts:488  local of the running doPhysics call
    nextId,             \* allocator of object identities (JS references)
    lastCall,           \* history: the engine call that returned last
    ticks,              \* history: the number of doPhysics calls that passed the grid check
    phases,             \* history: the tick phases the current/last doPhysics ran
    request,            \* history: the arguments of the last forceVelocity call
    log,                \* history: what the passes of the current/last doPhysics did
    result              \* history: what the last call was given and what it returned

vars == << particles, staticObjects, sources, sinks, grid, M, K, RHO0, MU,
           xmin, ymin, xmax, ymax, forceVelocityOn, forceVx, forceVy,
           forceVelocityCell, now, pc, currentTime, nextId, lastCall, ticks, phases, request,
           log, result >>

-----------------------------------------------------------------------------
(* Fixed-point arithmetic                                                   *)

\* resolution of the model's numbers: one quantum is 1/FP
FP == 10 * 10
FP2 == FP * FP

Abs(a) == IF a < 0 THEN -a ELSE a
Sgn(a) == IF a < 0 THEN -1 ELSE IF a > 0 THEN 1 ELSE 0
Min2(a, b) == IF a <= b THEN a ELSE b
Max2(a, b) == IF a >= b THEN a ELSE b

\* a / b rounded to the nearest integer (b # 0), as a double division rounds
RDiv(a, b) ==
    LET n == Abs(a)  d == Abs(b)
        q == n \div d  r == n % d
        m == IF 2 * r >= d THEN q + 1 ELSE q
    IN  Sgn(a) * Sgn(b) * m

\* product and quotient of two fixed-point numbers; the split keeps the
\* intermediate values inside TLC's integers
Mul(a, b) ==
    LET n == Abs(a)
    IN  Sgn(a) * ((n \div FP) * b + RDiv((n % FP) * b, FP))
Div(a, b) ==
    LET n == Abs(a)  d == Abs(b)
    IN  Sgn(a) * Sgn(b) * ((n \div d) * FP + RDiv((n % d) * FP, d))

RECURSIVE SqrtSearch(_, _, _)
SqrtSearch(n, lo, hi) ==
    IF lo >= hi THEN lo
    ELSE LET mid == (lo + hi + 1) \div 2
         IN  IF mid * mid <= n THEN SqrtSearch(n, mid, hi)
                               ELSE SqrtSearch(n, lo, mid - 1)
\* Math.sqrt: the square root of n >= 0 rounded to the nearest integer
Sqrt(n) ==
    LET s == SqrtSearch(n, 0, 46340)
    IN  IF n - s * s > s THEN s + 1 ELSE s

-----------------------------------------------------------------------------
(* Smoothing kernels, sph.ts:25-45                                          *)

Pi1000 == 3142
H  == FP
H2 == FP2

Wpoly6_coeff == RDiv(315 * FP * 1000, 64 * Pi1000)
\* r2 is a squared length (at 1/FP2); the result is at 1/FP
Wpoly6(r2) ==
    LET t == H2 - r2
    IN  RDiv(RDiv(RDiv(Wpoly6_coeff * t, FP2) * t, FP2) * t, FP2)

Wspiky_grad_coeff == RDiv(45 * FP * 1000, Pi1000)
\* r # 0; the engine's value at r = 0 is Infinity (see repulsion)
Wspiky_grad2(r) ==
    LET t == H - r
    IN  Div(Mul(Mul(Wspiky_grad_coeff, t), t), r)

Wvisc_lapl_coeff == RDiv(45 * FP * 1000, Pi1000)
Wvisc_lapl(r) == Mul(Wvisc_lapl_coeff, FP - Div(r, H))

\* util: squared distance of two positionables, at 1/FP2
dist2(p1, p2) ==
    LET dx == p2.x - p1.x
        dy == p2.y - p1.y
    IN  dx * dx + dy * dy

-----------------------------------------------------------------------------
(* Static obstacles, StaticObject.ts                                        *)

Min4(a, b, c, d) == Min2(Min2(a, b), Min2(c, d))
Max3(a, b, c) == Max2(Max2(a, b), c)

\* an obstacle is [id, type, x, y, width, height, radius]; type is "plane" or "circle"
StaticPlane(id, x, y, w, h) ==
    [id |-> id, type |-> "plane", x |-> x, y |-> y, width |-> w, height |-> h, radius |-> 0]
StaticCircle(id, x, y, r) ==
    [id |-> id, type |-> "circle", x |-> x, y |-> y, width |-> 0, height |-> 0, radius |-> r]

PlaneDistanceTo(o, px, py) ==
    LET top == o.y + o.height
        left == o.x
        bottom == o.y
        right == o.x + o.width
    IN  IF px >= left /\ px <= right /\ py >= bottom /\ py <= top
        THEN -Min4(px - left, right - px, py - bottom, top - py)
        ELSE LET dx == Max3(left - px, 0, px - right)
                 dy == Max3(bottom - py, 0, py - top)
             IN  Sqrt(dx * dx + dy * dy)

\* distance of (px, py) to the centre of a circle
CentreDistance(o, px, py) ==
    LET dx == px - o.x
        dy == py - o.y
    IN  Sqrt(dx * dx + dy * dy)

CircleDistanceTo(o, px, py) == CentreDistance(o, px, py) - o.radius

distanceTo(o, px, py) ==
    IF o.type = "plane" THEN PlaneDistanceTo(o, px, py) ELSE CircleDistanceTo(o, px, py)

\* the finite-difference step of the obstacle normal: one quantum (1e-4 in the source)
EPS == 1
\* the margin a collision leaves between particle and surface (0.01 in the source)
Margin == FP \div 100

\* (o.distanceTo(p + EPS*(ex, ey)) - o.distanceTo(p)) / EPS, for (ex, ey) one of
\* (1, 0) and (0, 1).  For a circle the difference of the two roots is taken as
\* (2a*EPS + EPS^2) / (d1 + d0), a the offset from the centre along the axis:
\* the same quotient, without the cancellation of two rounded roots.
FiniteDifference(o, px, py, ex, ey) ==
    IF o.type = "plane"
    THEN Div(distanceTo(o, px + ex * EPS, py + ey * EPS) - distanceTo(o, px, py), EPS)
    ELSE LET a  == ex * (px - o.x) + ey * (py - o.y)
             d0 == CentreDistance(o, px, py)
             d1 == CentreDistance(o, px + ex * EPS, py + ey * EPS)
         IN  IF d1 + d0 = 0 THEN 0 ELSE Div(2 * a + EPS, d1 + d0)

-----------------------------------------------------------------------------
(* Particles, sph.ts:77-120                                                 *)

\* SPHParticle.reset
reset(p) == [p EXCEPT !.Fx = 0, !.Fy = 0, !.FxNaN = FALSE, !.FyNaN = FALSE,
                       !.rho = Mul(p.M, Wpoly6(0))]

\* new SPHParticle({mass, velocity: (0,0), pos}).  nan flags a particle whose
\* position and velocity are NaN, FxNaN and FyNaN a force component that is NaN
SPHParticle(id, mass, px, py) ==
    reset([id |-> id, x |-> px, y |-> py, Vx |-> 0, Vy |-> 0, Fx |-> 0, Fy |-> 0,
           M |-> mass, P |-> 0, rho |-> 0, nan |-> FALSE, FxNaN |-> FALSE, FyNaN |-> FALSE])

V_MAX == 10 * FP
dt == 15

\* three.js Vector2.length of (vx, vy), rounded to the nearest quantum; components
\* too large for TLC's integers are scaled down by s before squaring
ScaleOf(vx, vy) == (Max2(Abs(vx), Abs(vy)) \div (3 * V_MAX)) + 1
Length(vx, vy) ==
    LET s == ScaleOf(vx, vy)
    IN  s * Sqrt((vx \div s) * (vx \div s) + (vy \div s) * (vy \div s))

\* three.js Vector2.clampLength(0, max): v / (length || 1) * min(max, length), the
\* components rounded towards zero
clampLength(vx, vy, max) ==
    LET len == Length(vx, vy)
    IN  IF len <= max THEN << vx, vy >>
        ELSE << Sgn(vx) * ((Abs(vx) * max) \div len), Sgn(vy) * ((Abs(vy) * max) \div len) >>

\* v * dt * 0.001
TimesDt(v) == RDiv(v * dt, 1000)

\* SPHParticle.update(dt * 0.001), sph.ts:100-114
update(p) ==
    IF p.nan \/ p.FxNaN \/ p.FyNaN
    THEN reset([p EXCEPT !.nan = TRUE])
    ELSE LET ax == Div(p.Fx, p.rho)
             ay == Div(p.Fy, p.rho)
             v  == clampLength(p.Vx + TimesDt(ax), p.Vy + TimesDt(ay), V_MAX)
         IN  reset([p EXCEPT !.Vx = v[1], !.Vy = v[2],
                             !.x = p.x + TimesDt(v[1]), !.y = p.y + TimesDt(v[2])])

-----------------------------------------------------------------------------
(* Spatial grid, ParticleGrid.ts                                            *)

\* ParticleGrid.idxAt for a grid of nx columns
idxAt(nx, i, j) == i + j * nx

\* the neighborsTR list the constructor builds for the cell in column i, row j
\* (ParticleGrid.ts:72-84): the right neighbour, then the row above from column
\* i - 1 to column i + 1.  RowAboveFromColumn is the row above without its
\* column i - 1.
RowAboveFromColumn(nx, i, j) ==
    LET lo == i
        hi == Min2(nx - 1, i + 1)
    IN  [k \in 1..(hi - lo + 1) |-> idxAt(nx, lo + k - 1, j + 1)]
RowAbove(nx, i, j) ==
    LET lo == Max2(0, i - 1)
        hi == Min2(nx - 1, i + 1)
    IN  [k \in 1..(hi - lo + 1) |-> idxAt(nx, lo + k - 1, j + 1)]
NeighborsTR(nx, ny, i, j) ==
    (IF i < nx - 1 THEN << idxAt(nx, i + 1, j) >> ELSE << >>)
    \o (IF j < ny - 1 THEN RowAbove(nx, i, j) ELSE << >>)

\* new ParticleGrid(nx, ny, w, h, capacity); a cell's particles[0..numParticles)
\* is the sequence cells[c] of particle identities, gen tells grid objects apart
NewGrid(gen, nx, ny, w, h) ==
    [exists |-> TRUE, gen |-> gen, nx |-> nx, ny |-> ny, w |-> w, h |-> h,
     cells |-> [c \in 0..(nx * ny - 1) |-> << >>],
     neighborsTR |-> [c \in 0..(nx * ny - 1) |-> NeighborsTR(nx, ny, c % nx, c \div nx)]]

\* the value of the variable grid before init has run (sph.ts:57)
NoGrid ==
    [exists |-> FALSE, gen |-> 0, nx |-> 0, ny |-> 0, w |-> 0, h |-> 0,
     cells |-> << >>, neighborsTR |-> << >>]

\* ParticleGrid.reset that leaves the cells as they are
GridKept(g) == g

\* ParticleGrid.reset
GridReset(g) == [g EXCEPT !.cells = [c \in DOMAIN g.cells |-> << >>]]

\* ParticleGrid.getCellFromLocation: the index of the cell, or Undefined
Undefined == -1
getCellFromLocation(g, px, py) ==
    LET i == (g.nx * px) \div g.w
        j == (g.ny * py) \div g.h
        c == idxAt(g.nx, i, j)
    IN  IF c >= 0 /\ c < g.nx * g.ny THEN c ELSE Undefined

\* ParticleGrid.addParticle; a NaN position indexes no cell
addParticle(g, p) ==
    LET c == IF p.nan THEN Undefined ELSE getCellFromLocation(g, p.x, p.y)
    IN  IF c = Undefined THEN g
        ELSE [g EXCEPT !.cells[c] = Append(@, p.id)]

RECURSIVE addParticles(_, _, _)
addParticles(g, ps, k) ==
    IF k > Len(ps) THEN g ELSE addParticles(addParticle(g, ps[k]), ps, k + 1)

\* ParticleGrid.pairwise: the pairs (p1, p2) of particle identities on which the
\* interaction is called, in call order
RECURSIVE SameCellPairs(_, _, _)
SameCellPairs(c, i, j) ==
    IF j > Len(c) THEN << >> ELSE << << c[i], c[j] >> >> \o SameCellPairs(c, i, j + 1)
RECURSIVE OtherCellPairs(_, _, _)
OtherCellPairs(p1, nb, j) ==
    IF j > Len(nb) THEN << >> ELSE << << p1, nb[j] >> >> \o OtherCellPairs(p1, nb, j + 1)
RECURSIVE NeighborPairs(_, _, _, _)
NeighborPairs(g, p1, nbs, n) ==
    IF n > Len(nbs) THEN << >>
    ELSE OtherCellPairs(p1, g.cells[nbs[n]], 1) \o NeighborPairs(g, p1, nbs, n + 1)
RECURSIVE CellPairs(_, _, _)
CellPairs(g, c, i) ==
    IF i > Len(g.cells[c]) THEN << >>
    ELSE SameCellPairs(g.cells[c], i, i + 1)
         \o NeighborPairs(g, g.cells[c][i], g.neighborsTR[c], 1)
         \o CellPairs(g, c, i + 1)
RECURSIVE PairsFrom(_, _)
PairsFrom(g, c) ==
    IF c >= g.nx * g.ny THEN << >> ELSE CellPairs(g, c, 1) \o PairsFrom(g, c + 1)
pairwise(g) == PairsFrom(g, 0)

-----------------------------------------------------------------------------
(* Collision handling, sph.ts:122-176                                       *)

\* the body of the loop of HandleObstacleCollisions for one collider.  The EPS the
\* source adds to the gradient's magnitude is below the model's resolution; it
\* keeps the quotient defined for a zero gradient, where it gives the normal 0.
CollideWith(p1, collider) ==
    LET distance == distanceTo(collider, p1.x, p1.y)
    IN  IF p1.nan \/ ~(distance < 0) THEN p1
        ELSE LET dx == FiniteDifference(collider, p1.x, p1.y, 1, 0)
                 dy == FiniteDifference(collider, p1.x, p1.y, 0, 1)
                 gradMag == Sqrt(dx * dx + dy * dy)
                 nx == IF gradMag = 0 THEN 0 ELSE Div(dx, gradMag)
                 ny == IF gradMag = 0 THEN 0 ELSE Div(dy, gradMag)
                 correctionDistance == -distance + Margin
                 normalVel == Mul(p1.Vx, nx) + Mul(p1.Vy, ny)
                 tangentVx == p1.Vx - Mul(normalVel, nx)
                 tangentVy == p1.Vy - Mul(normalVel, ny)
                 friction == 0
             IN  [p1 EXCEPT !.x = @ + Mul(nx, correctionDistance),
                            !.y = @ + Mul(ny, correctionDistance),
                            !.Vx = IF normalVel < 0 THEN Mul(tangentVx, friction) ELSE @,
                            !.Vy = IF normalVel < 0 THEN Mul(tangentVy, friction) ELSE @]

RECURSIVE CollideFrom(_, _, _)
CollideFrom(p1, colliders, k) ==
    IF k > Len(colliders) THEN p1
    ELSE CollideFrom(CollideWith(p1, colliders[k]), colliders, k + 1)

HandleObstacleCollisions(p1) == CollideFrom(p1, staticObjects, 1)

\* the closure repulsion of HandleBoundaryCollisions, for d # 0
repulsion(p1, d) == Abs(Mul(Mul(Div(Mul(M, p1.P), p1.rho), Wspiky_grad2(d)), d))

\* one side of HandleBoundaryCollisions: `if (d < H) F += sign * repulsion(d)
\* else if (d <= 0) V = -V`.  At d = 0 Wspiky_grad2 is Infinity and Infinity * 0 is
\* NaN.  The result is << F, V, F is NaN >>.
BoundarySide(p1, d, sign, F, V, isNaN) ==
    IF d < H
    THEN IF d = 0 THEN << F, V, TRUE >> ELSE << F + sign * repulsion(p1, d), V, isNaN >>
    ELSE IF d <= 0 THEN << F, -V, isNaN >> ELSE << F, V, isNaN >>

HandleBoundaryCollisions(p1) ==
    IF p1.nan THEN p1
    ELSE LET l == p1.x - xmin
             b == p1.y - ymin
             t == ymax - p1.y
             r == xmax - p1.x
             sl == BoundarySide(p1, l,  1, p1.Fx, p1.Vx, p1.FxNaN)
             sb == BoundarySide(p1, b,  1, p1.Fy, p1.Vy, p1.FyNaN)
             st == BoundarySide(p1, t, -1, sb[1], sb[2], sb[3])
             sr == BoundarySide(p1, r, -1, sl[1], sl[2], sl[3])
         IN  [p1 EXCEPT !.Fx = sr[1], !.Vx = sr[2], !.FxNaN = sr[3],
                        !.Fy = st[1], !.Vy = st[2], !.FyNaN = st[3]]

-----------------------------------------------------------------------------
(* Pair interactions, sph.ts:224-250                                        *)

\* the place in the particle sequence of the particle with identity id, 0 if none
IndexOf(ps, id) ==
    IF \E k \in 1..Len(ps) : ps[k].id = id
    THEN CHOOSE k \in 1..Len(ps) : ps[k].id = id
    ELSE 0

\* addDensity on the particles at places i and j
addDensity(ps, i, j) ==
    LET r2 == dist2(ps[i], ps[j])
    IN  IF r2 < H2
        THEN LET val == Mul(M, Wpoly6(r2))
             IN  [ps EXCEPT ![i].rho = @ + val, ![j].rho = @ + val]
        ELSE ps

\* addForces on the particles at places i and j.  The 1e-6 the source adds to r
\* is below the model's resolution; it keeps Wspiky_grad2 defined for r = 0, for
\* which the model takes the smallest positive r.
addForces(ps, i, j) ==
    LET p1 == ps[i]
        p2 == ps[j]
        r2 == dist2(p1, p2)
    IN  IF r2 < H2
        THEN LET r == Max2(Sqrt(r2), 1)
                 fPress == Mul(Div(Mul(M, p1.P + p2.P), 2 * p2.rho), Wspiky_grad2(r))
                 dx == p1.x - p2.x
                 dy == p1.y - p2.y
                 fVisc == Div(Mul(Mul(MU, M), Wvisc_lapl(r)), p2.rho)
                 Fx == Mul(dx, fPress) + Mul(fVisc, p2.Vx - p1.Vx)
                 Fy == Mul(dy, fPress) + Mul(fVisc, p2.Vy - p1.Vy)
             IN  [ps EXCEPT ![i].Fx = @ + Fx, ![i].Fy = @ + Fy,
                            ![j].Fx = @ - Fx, ![j].Fy = @ - Fy]
        ELSE ps

\* grid.pairwise(addDensity) and grid.pairwise(addForces) over the call sequence
RECURSIVE DensityPass(_, _, _)
DensityPass(ps, pairs, k) ==
    IF k > Len(pairs) THEN ps
    ELSE DensityPass(addDensity(ps, IndexOf(ps, pairs[k][1]), IndexOf(ps, pairs[k][2])),
                     pairs, k + 1)
RECURSIVE ForcePass(_, _, _)
ForcePass(ps, pairs, k) ==
    IF k > Len(pairs) THEN ps
    ELSE ForcePass(addForces(ps, IndexOf(ps, pairs[k][1]), IndexOf(ps, pairs[k][2])),
                   pairs, k + 1)

\* the pressure pass without the clamp at 0
PressurePassUnclamped(ps) ==
    [k \in 1..Len(ps) |-> [ps[k] EXCEPT !.P = Mul(K, ps[k].rho - RHO0)]]

\* sph.ts:507
PressurePass(ps) ==
    [k \in 1..Len(ps) |-> [ps[k] EXCEPT !.P = Max2(Mul(K, ps[k].rho - RHO0), 0)]]

-----------------------------------------------------------------------------
(* Particle sources, ParticleSource (src/unnamed/part_006) and sph.ts:266-325 *)

\* the value null of a staticPlane field
NoPlane == StaticPlane(0, 0, 0, 0, 0)

\* new ParticleSource(pos, rate, velocity, staticPlane, spawnSide, direction,
\* spawnLength); the staticPlane field holds the identity of the plane, 0 for null
ParticleSource(id, posx, posy, rate, velocity, plane, spawnSide, dirx, diry, spawnLength) ==
    LET attached == plane.id # 0 /\ spawnSide # "none"
        centerX == plane.x + RDiv(plane.width, 2)
        centerY == plane.y + RDiv(plane.height, 2)
        position == CASE spawnSide = "top"    -> << centerX, plane.y + plane.height >>
                      [] spawnSide = "bottom" -> << centerX, plane.y >>
                      [] spawnSide = "left"   -> << plane.x, centerY >>
                      [] OTHER                -> << plane.x + plane.width, centerY >>
        direction == CASE spawnSide = "top"    -> << 0, FP >>
                       [] spawnSide = "bottom" -> << 0, -FP >>
                       [] spawnSide = "left"   -> << -FP, 0 >>
                       [] OTHER                -> << FP, 0 >>
        length == IF spawnSide \in {"top", "bottom"} THEN plane.width ELSE plane.height
    IN  [id |-> id, staticPlane |-> plane.id, rate |-> rate, lastSpawnTime |-> now,
         velocity |-> velocity, spawnSide |-> spawnSide, spawnRadius |-> FP \div 10,
         posx |-> IF attached THEN position[1] ELSE posx,
         posy |-> IF attached THEN position[2] ELSE posy,
         dirx |-> IF attached THEN direction[1] ELSE dirx,
         diry |-> IF attached THEN direction[2] ELSE diry,
         spawnLength |-> IF attached THEN length ELSE spawnLength]

\* sin and cos of an angle given in turns (angle / 2 pi, in 0..FP-1), by
\* Bhaskara's rational approximation, which is exact at the quarter turns
SinHalf(t) ==
    LET u == RDiv(2 * t * (FP - 2 * t), FP)
    IN  Div(16 * u, 5 * FP - 4 * u)
SinTurn(t) == IF t < FP \div 2 THEN SinHalf(t) ELSE -SinHalf(t - FP \div 2)
CosTurn(t) == SinTurn((t + FP \div 4) % FP)

\* 1000 / rate <= elapsed, for the ms the source and the sink loops compare
\* (1000 / 0 is Infinity, which no elapsed time reaches).  IntervalIgnored is the
\* loop without that comparison.
IntervalIgnored(elapsed, rate) == TRUE

\* the comparison with a rate of 0 taken for no interval at all
IntervalOrNoRate(elapsed, rate) == rate = 0 \/ elapsed * rate >= 1000

IntervalElapsed(elapsed, rate) ==
    IF rate = 0 THEN FALSE ELSE elapsed * rate >= 1000

\* the position and velocity a source samples (sph.ts:272-308); draw is the
\* sequence of the values Math.random() returns, each in 0..FP-1
SourceSample(source, draw) ==
    IF source.spawnLength > 0
    THEN LET lineOffset == Mul(draw[1] - FP \div 2, source.spawnLength)
             perpX == -source.diry
             perpY == source.dirx
             directionOffset == Mul(draw[2] - FP \div 2, FP \div 10)
             velocityMagnitude == IF source.velocity = 0 THEN FP ELSE source.velocity
             velocityRandomness == (3 * FP) \div 10
         IN  [x |-> source.posx + Mul(perpX, lineOffset) + Mul(source.dirx, directionOffset),
              y |-> source.posy + Mul(perpY, lineOffset) + Mul(source.diry, directionOffset),
              Vx |-> Mul(Mul(source.dirx, velocityMagnitude),
                         FP + Mul(draw[3] - FP \div 2, velocityRandomness)),
              Vy |-> Mul(Mul(source.diry, velocityMagnitude),
                         FP + Mul(draw[4] - FP \div 2, velocityRandomness))]
    ELSE LET radius == Mul(draw[2], source.spawnRadius)
             velocityMagnitude == FP \div 2
         IN  [x |-> source.posx + Mul(CosTurn(draw[1]), radius),
              y |-> source.posy + Mul(SinTurn(draw[1]), radius),
              Vx |-> Mul(CosTurn(draw[1]), velocityMagnitude),
              Vy |-> Mul(SinTurn(draw[1]), velocityMagnitude)]

\* the scaled-down SIM_MAX_PARTICLES (6000 in the source, sph.ts:21)
SIM_MAX_PARTICLES == 4

\* particles.length <= SIM_MAX_PARTICLES: a cap that still admits a particle
\* when the count has reached the maximum
AtOrBelowMax(n) == n <= SIM_MAX_PARTICLES

\* particles.length < SIM_MAX_PARTICLES, the second half of the emit condition
BelowMax(n) == n < SIM_MAX_PARTICLES

InBounds(px, py) == px >= xmin /\ px <= xmax /\ py >= ymin /\ py <= ymax

\* HandleParticleSources(currentTime) from source k on.  st is the record
\* [particles, sources, nextId, emit]; emit logs, per source, whether the
\* condition held, the sample, and the identity of the particle pushed (0: none).
RECURSIVE HandleParticleSources(_, _, _, _)
HandleParticleSources(st, time, draws, k) ==
    IF k > Len(st.sources) THEN st
    ELSE LET source == st.sources[k]
             timeSinceLastSpawn == time - source.lastSpawnTime
             cond == IntervalElapsed(timeSinceLastSpawn, source.rate)
                     /\ BelowMax(Len(st.particles))
             s == SourceSample(source, draws[k])
             inside == InBounds(s.x, s.y)
             particle == [SPHParticle(st.nextId, M, 0, 0) EXCEPT
                             !.x = s.x, !.y = s.y, !.Vx = s.Vx, !.Vy = s.Vy]
             entry == [cond |-> cond, inside |-> inside, sample |-> s,
                       pushed |-> IF cond /\ inside THEN st.nextId ELSE 0,
                       count |-> Len(st.particles), last |-> source.lastSpawnTime]
         IN  HandleParticleSources(
                 [particles |-> IF cond /\ inside THEN Append(st.particles, particle)
                                ELSE st.particles,
                  sources |-> IF cond THEN [st.sources EXCEPT ![k].lastSpawnTime = time]
                              ELSE st.sources,
                  nextId |-> IF cond /\ inside THEN st.nextId + 1 ELSE st.nextId,
                  emit |-> Append(st.emit, entry)],
                 time, draws, k + 1)

-----------------------------------------------------------------------------
(* Particle sinks, ParticleSink (src/unnamed/part_004) and sph.ts:327-347    *)

\* new ParticleSink(pos, rate, sinkRange, staticPlane, sinkSide, sinkLength)
ParticleSink(id, posx, posy, rate, sinkRange, plane, sinkSide, sinkLength) ==
    LET attached == plane.id # 0 /\ sinkSide # "none"
        centerX == plane.x + RDiv(plane.width, 2)
        centerY == plane.y + RDiv(plane.height, 2)
        position == CASE sinkSide = "top"    -> << centerX, plane.y + plane.height >>
                      [] sinkSide = "bottom" -> << centerX, plane.y >>
                      [] sinkSide = "left"   -> << plane.x, centerY >>
                      [] OTHER               -> << plane.x + plane.width, centerY >>
        length == IF sinkSide \in {"top", "bottom"} THEN plane.width ELSE plane.height
    IN  [id |-> id, staticPlane |-> plane.id, rate |-> rate, lastVanishTime |-> now,
         sinkRange |-> sinkRange, sinkSide |-> sinkSide,
         posx |-> IF attached THEN position[1] ELSE posx,
         posy |-> IF attached THEN position[2] ELSE posy,
         sinkLength |-> IF attached THEN length ELSE sinkLength]

\* ParticleSink.shouldRemoveParticle; every comparison with a NaN position is false
shouldRemoveParticle(sink, p) ==
    IF p.nan THEN FALSE
    ELSE IF sink.staticPlane # 0 /\ sink.sinkSide # "none" /\ sink.sinkLength > 0
    THEN LET tx == p.x - sink.posx
             ty == p.y - sink.posy
             perpDistance == IF sink.sinkSide \in {"top", "bottom"} THEN Abs(ty) ELSE Abs(tx)
             linePosition == IF sink.sinkSide \in {"top", "bottom"} THEN Abs(tx) ELSE Abs(ty)
         IN  perpDistance <= sink.sinkRange /\ 2 * linePosition <= sink.sinkLength
    ELSE LET dx == p.x - sink.posx
             dy == p.y - sink.posy
         IN  Sqrt(dx * dx + dy * dy) <= sink.sinkRange

\* the inner loop of HandleParticleSinks: the place of the particle the sink
\* removes, scanning from place i down; 0 if it removes none
RECURSIVE FindRemovable(_, _, _)
FindRemovable(ps, sink, i) ==
    IF i < 1 THEN 0
    ELSE IF shouldRemoveParticle(sink, ps[i]) THEN i
    ELSE FindRemovable(ps, sink, i - 1)

\* Array.splice(i): without the delete count, everything from place i on goes
SpliceToEnd(s, i) == SubSeq(s, 1, i - 1)

\* Array.splice(i, 1)
Splice(s, i) == [k \in 1..(Len(s) - 1) |-> IF k < i THEN s[k] ELSE s[k + 1]]

\* HandleParticleSinks(currentTime) from sink k on.  st is the record
\* [particles, sinks, drain]; drain logs, per sink, whether its interval had
\* elapsed and the particles it removed.
RECURSIVE HandleParticleSinks(_, _, _)
HandleParticleSinks(st, time, k) ==
    IF k > Len(st.sinks) THEN st
    ELSE LET sink == st.sinks[k]
             timeSinceLastRemoval == time - sink.lastVanishTime
             elapsed == IntervalElapsed(timeSinceLastRemoval, sink.rate)
             i == IF elapsed THEN FindRemovable(st.particles, sink, Len(st.particles)) ELSE 0
             entry == [elapsed |-> elapsed, last |-> sink.lastVanishTime,
                       removed |-> IF i > 0 THEN << st.particles[i] >> ELSE << >>]
         IN  HandleParticleSinks(
                 [particles |-> IF i > 0 THEN Splice(st.particles, i) ELSE st.particles,
                  sinks |-> IF i > 0 THEN [st.sinks EXCEPT ![k].lastVanishTime = time]
                            ELSE st.sinks,
                  drain |-> Append(st.drain, entry)],
                 time, k + 1)

-----------------------------------------------------------------------------
(* Engine state, sph.ts:50-73                                               *)

scale == 30
gridCellSize == H
margin == 5

\* the values of forceVelocityCell: null, undefined, or the cell idx of the grid
\* object gen.  A cell of a grid that init has replaced lives on through this
\* reference alone, with the particles it held at the replacement.
NullCell == [kind |-> "null", gen |-> 0, idx |-> 0, held |-> << >>]
UndefinedCell == [kind |-> "undefined", gen |-> 0, idx |-> 0, held |-> << >>]
CellRef(gen, idx) == [kind |-> "cell", gen |-> gen, idx |-> idx, held |-> << >>]

\* the value of request before the first forceVelocity call
NoRequest == [x |-> 0, y |-> 0, Vx |-> 0, Vy |-> 0]

\* what a call was given (the identity of an object or an index, 0 if neither)
\* and what it returned: undefined, a number or a boolean (in x), a vector, or the
\* TypeError it threw
Value(arg, type, x, y) == [arg |-> arg, type |-> type, x |-> x, y |-> y]
NoResult == Value(0, "undefined", 0, 0)
Number(n) == Value(0, "number", n, 0)

EmptyLog == [density |-> << >>, forces |-> << >>, emit |-> << >>, drain |-> << >>,
             forced |-> << >>]

fluidVars == << M, K, RHO0, MU >>
boundVars == << xmin, ymin, xmax, ymax >>
forceVars == << forceVelocityOn, forceVx, forceVy, forceVelocityCell, request >>
tickVars  == << now, pc, currentTime, ticks, phases, log >>

Init ==
    /\ particles = << >>
    /\ staticObjects = << >>
    /\ sources = << >>
    /\ sinks = << >>
    /\ grid = NoGrid
    /\ M = FP
    /\ K = 150 * FP
    /\ RHO0 = FP \div 2
    /\ MU = 3 * FP
    /\ xmin = 0 /\ ymin = 0
    /\ xmax = 0 /\ ymax = 0
    /\ forceVelocityOn = FALSE
    /\ forceVx = 0 /\ forceVy = 0
    /\ forceVelocityCell = NullCell
    /\ now = 0
    /\ pc = "idle"
    /\ currentTime = 0
    /\ nextId = 1
    /\ lastCall = "none"
    /\ ticks = 0
    /\ phases = << >>
    /\ request = NoRequest
    /\ log = EmptyLog
    /\ result = NoResult

-----------------------------------------------------------------------------
(* Lifecycle and configuration calls                                        *)

\* the number of particles init pushes: for (i = 0; i < SIM_MAX_PARTICLES/2; i++)
InitCount == (SIM_MAX_PARTICLES + 1) \div 2

\* randomPos(area) for the pair draw of Math.random() values
randomPos(draw, x0, y0, x1, y1) ==
    << Mul(draw[1], x1 - x0) + x0, Mul(draw[2], y1 - y0) + y0 >>

\* the particles init pushes (sph.ts:450-453), with identities from id on
NewParticles(draws, id, x0, y0, x1, y1) ==
    [k \in 1..InitCount |->
        LET pos == randomPos(draws[k], x0, y0, x1, y1)
        IN  SPHParticle(id + k - 1, M, pos[1], pos[2])]

\* Simulation.resize
resizeTo(left, right, bottom, top) ==
    /\ xmin' = RDiv((left + margin) * FP, scale)
    /\ ymin' = RDiv((bottom + margin) * FP, scale)
    /\ xmax' = RDiv((right - margin) * FP, scale)
    /\ ymax' = RDiv((top - margin) * FP, scale)

\* the bound of the model on the particles alive
MaxAlive == SIM_MAX_PARTICLES

\* Simulation.init(width, height, left, right, bottom, top)
init(a, draws) ==
    /\ pc = "idle"
    /\ Len(particles) + InitCount <= MaxAlive
    /\ LET xlimit == RDiv(a.width * FP, scale)
           ylimit == RDiv(a.height * FP, scale)
           nx == xlimit \div gridCellSize
           ny == ylimit \div gridCellSize
           rebuild == ~grid.exists \/ grid.nx # nx \/ grid.ny # ny
       IN  /\ resizeTo(a.left, a.right, a.bottom, a.top)
           /\ grid' = IF rebuild THEN NewGrid(grid.gen + 1, nx, ny, xlimit, ylimit) ELSE grid
           /\ forceVelocityCell' =
                 IF rebuild /\ forceVelocityCell.kind = "cell"
                            /\ forceVelocityCell.gen = grid.gen
                 THEN [forceVelocityCell EXCEPT !.held = grid.cells[forceVelocityCell.idx]]
                 ELSE forceVelocityCell
           /\ particles' = particles \o NewParticles(draws, nextId, xmin', ymin', xmax', ymax')
    /\ nextId' = nextId + InitCount
    /\ lastCall' = "init"
    /\ result' = NoResult
    /\ UNCHANGED << staticObjects, sources, sinks, fluidVars, forceVelocityOn, forceVx,
                    forceVy, request, tickVars >>

\* Simulation.setFluidProperties(params)
setFluidProperties(params) ==
    /\ pc = "idle"
    /\ M' = params.ParticleMass
    /\ K' = params.GasConstant
    /\ RHO0' = params.RestDensity
    /\ MU' = params.Viscosity
    /\ lastCall' = "setFluidProperties"
    /\ result' = NoResult
    /\ UNCHANGED << particles, staticObjects, sources, sinks, grid, boundVars, forceVars,
                    nextId, tickVars >>

\* Simulation.forceVelocity(x, y, Vx, Vy); without a grid the call throws on
\* grid.getCellFromLocation, after it has set forceVelocityOn
forceVelocity(a) ==
    /\ pc = "idle"
    /\ forceVelocityOn' = TRUE
    /\ request' = a
    /\ IF grid.exists
       THEN LET c == getCellFromLocation(grid, RDiv(a.x * FP, scale),
                                         ymax - RDiv(a.y * FP, scale))
            IN  /\ forceVelocityCell' = IF c = Undefined THEN UndefinedCell
                                        ELSE CellRef(grid.gen, c)
                /\ forceVx' = a.Vx * FP
                /\ forceVy' = -(a.Vy * FP)
       ELSE UNCHANGED << forceVelocityCell, forceVx, forceVy >>
    /\ lastCall' = "forceVelocity"
    /\ result' = NoResult
    /\ UNCHANGED << particles, staticObjects, sources, sinks, grid, fluidVars, boundVars,
                    nextId, tickVars >>

\* the bounds of the model on the obstacles: of the engine, and of the
\* specification that runs the physics on them
MaxObstacles == 3
TickObstacles == 1

\* Simulation.addStaticObject(obj), obj a new obstacle of the given shape
addStaticObject(shape) ==
    /\ pc = "idle"
    /\ Len(staticObjects) < MaxObstacles
    /\ staticObjects' = Append(staticObjects, [shape EXCEPT !.id = nextId])
    /\ nextId' = nextId + 1
    /\ lastCall' = "addStaticObject"
    /\ result' = NoResult
    /\ UNCHANGED << particles, sources, sinks, grid, fluidVars, boundVars, forceVars,
                    tickVars >>

\* Vector2.normalize(): divideScalar(length() || 1)
normalize(dx, dy) ==
    LET len == Length(dx, dy)
    IN  IF len = 0 THEN << dx, dy >> ELSE << RDiv(dx * FP, len), RDiv(dy * FP, len) >>

\* the bounds of the model on the sources and on the sinks, and on the sources
\* of the specification that runs sources and sinks together
MaxSources == 2
FlowSources == 1
MaxSinks == 2

\* Simulation.addParticleSource(pos, direction, spawnLength, rate, velocity),
\* pos and spawnLength in display units
addParticleSource(a) ==
    /\ pc = "idle"
    /\ Len(sources) < MaxSources
    /\ LET direction == normalize(a.dirx, a.diry)
       IN  sources' = Append(sources,
               ParticleSource(nextId, RDiv(a.x * FP, scale), RDiv(a.y * FP, scale), a.rate,
                              a.velocity, NoPlane, "none", direction[1], direction[2],
                              RDiv(a.spawnLength * FP, scale)))
    /\ nextId' = nextId + 1
    /\ lastCall' = "addParticleSource"
    /\ result' = Number(Len(sources))
    /\ UNCHANGED << particles, staticObjects, sinks, grid, fluidVars, boundVars, forceVars,
                    tickVars >>

\* Simulation.addParticleSourceFromPlane(plane, spawnSide, rate, velocity)
addParticleSourceFromPlane(a) ==
    /\ pc = "idle"
    /\ Len(sources) < MaxSources
    /\ sources' = Append(sources,
           ParticleSource(nextId, 0, 0, a.rate, a.velocity, a.plane, a.spawnSide, 0, 0, 0))
    /\ nextId' = nextId + 1
    /\ lastCall' = "addParticleSourceFromPlane"
    /\ result' = Number(Len(sources))
    /\ UNCHANGED << particles, staticObjects, sinks, grid, fluidVars, boundVars, forceVars,
                    tickVars >>

\* Simulation.addParticleSink(pos, rate, sinkRange), pos in display units
addParticleSink(a) ==
    /\ pc = "idle"
    /\ Len(sinks) < MaxSinks
    /\ sinks' = Append(sinks,
           ParticleSink(nextId, RDiv(a.x * FP, scale), RDiv(a.y * FP, scale), a.rate,
                        a.sinkRange, NoPlane, "none", 0))
    /\ nextId' = nextId + 1
    /\ lastCall' = "addParticleSink"
    /\ result' = Number(Len(sinks))
    /\ UNCHANGED << particles, staticObjects, sources, grid, fluidVars, boundVars, forceVars,
                    tickVars >>

\* Simulation.addParticleSinkFromPlane(plane, sinkSide, rate, sinkRange)
addParticleSinkFromPlane(a) ==
    /\ pc = "idle"
    /\ Len(sinks) < MaxSinks
    /\ sinks' = Append(sinks,
           ParticleSink(nextId, 0, 0, a.rate, a.sinkRange, a.plane, a.sinkSide, 0))
    /\ nextId' = nextId + 1
    /\ lastCall' = "addParticleSinkFromPlane"
    /\ result' = Number(Len(sinks))
    /\ UNCHANGED << particles, staticObjects, sources, grid, fluidVars, boundVars, forceVars,
                    tickVars >>

\* Simulation.addStaticObject(obj) for an obj that is in the list already
addStaticObjectAgain(k) ==
    /\ pc = "idle"
    /\ Len(staticObjects) < MaxObstacles
    /\ staticObjects' = Append(staticObjects, staticObjects[k])
    /\ lastCall' = "addStaticObject"
    /\ result' = NoResult
    /\ UNCHANGED << particles, sources, sinks, grid, fluidVars, boundVars, forceVars,
                    nextId, tickVars >>

\* cleanup that resets the forced-velocity flag and the grid and clears nothing
cleanupKeepsAll ==
    /\ pc = "idle"
    /\ forceVelocityOn' = FALSE
    /\ grid' = IF grid.exists THEN GridReset(grid) ELSE grid
    /\ lastCall' = "cleanup"
    /\ result' = NoResult
    /\ UNCHANGED << particles, sources, sinks, staticObjects, fluidVars, boundVars, forceVx,
                    forceVy, forceVelocityCell, request, nextId, tickVars >>

\* Simulation.cleanup()
cleanup ==
    /\ pc = "idle"
    /\ particles' = << >>
    /\ sources' = << >>
    /\ sinks' = << >>
    /\ forceVelocityOn' = FALSE
    /\ grid' = IF grid.exists THEN GridReset(grid) ELSE grid
    /\ lastCall' = "cleanup"
    /\ result' = NoResult
    /\ UNCHANGED << staticObjects, fluidVars, boundVars, forceVx, forceVy,
                    forceVelocityCell, request, nextId, tickVars >>

\* clearParticlesOnly doing what cleanup does
clearParticlesAndFlow ==
    /\ pc = "idle"
    /\ particles' = << >>
    /\ sources' = << >>
    /\ sinks' = << >>
    /\ forceVelocityOn' = FALSE
    /\ grid' = IF grid.exists THEN GridReset(grid) ELSE grid
    /\ lastCall' = "clearParticlesOnly"
    /\ result' = NoResult
    /\ UNCHANGED << staticObjects, fluidVars, boundVars, forceVx, forceVy,
                    forceVelocityCell, request, nextId, tickVars >>

\* Simulation.clearParticlesOnly()
clearParticlesOnly ==
    /\ pc = "idle"
    /\ particles' = << >>
    /\ forceVelocityOn' = FALSE
    /\ grid' = IF grid.exists THEN GridReset(grid) ELSE grid
    /\ lastCall' = "clearParticlesOnly"
    /\ result' = NoResult
    /\ UNCHANGED << staticObjects, sources, sinks, fluidVars, boundVars, forceVx, forceVy,
                    forceVelocityCell, request, nextId, tickVars >>

\* staticObjects.indexOf(obj): the first place that holds the object obj (by
\* identity) from place k on, 0 for the -1 of indexOf
RECURSIVE indexOf(_, _, _)
indexOf(objs, obj, k) ==
    IF k > Len(objs) THEN 0
    ELSE IF objs[k].id = obj.id THEN k
    ELSE indexOf(objs, obj, k + 1)

\* the filter with === for !==: it keeps what is attached to obj, drops the rest
AttachedTo(seq, obj) == SelectSeq(seq, LAMBDA s : s.staticPlane = obj.id)

\* sources.filter(source => source.staticPlane === null), and the same for sinks
Unattached(seq) == SelectSeq(seq, LAMBDA s : s.staticPlane = NoPlane.id)

\* sources.filter(source => source.staticPlane !== obj), and the same for sinks
\* (null is the identity 0)
Detached(seq, obj) == SelectSeq(seq, LAMBDA s : s.staticPlane # obj.id)

\* splice(index) without the delete count
RemovedToEnd(objs, index) == SubSeq(objs, 1, index - 1)

\* staticObjects.splice(index, 1), as a sequence
Removed(objs, index) == SubSeq(objs, 1, index - 1) \o SubSeq(objs, index + 1, Len(objs))

\* Simulation.removeStaticObject(obj)
removeStaticObject(obj) ==
    /\ pc = "idle"
    /\ LET index == indexOf(staticObjects, obj, 1)
       IN  IF index > 0
           THEN /\ staticObjects' = Removed(staticObjects, index)
                /\ IF obj.type = "plane"
                   THEN /\ sources' = Detached(sources, obj)
                        /\ sinks' = Detached(sinks, obj)
                   ELSE UNCHANGED << sources, sinks >>
                /\ result' = Value(obj.id, "boolean", 1, 0)
           ELSE /\ UNCHANGED << staticObjects, sources, sinks >>
                /\ result' = Value(obj.id, "boolean", 0, 0)
    /\ lastCall' = "removeStaticObject"
    /\ UNCHANGED << particles, grid, fluidVars, boundVars, forceVars, nextId, tickVars >>

\* Simulation.clearStaticObjects()
clearStaticObjects ==
    /\ pc = "idle"
    /\ staticObjects' = << >>
    /\ sources' = Unattached(sources)
    /\ sinks' = Unattached(sinks)
    /\ lastCall' = "clearStaticObjects"
    /\ result' = NoResult
    /\ UNCHANGED << particles, grid, fluidVars, boundVars, forceVars, nextId, tickVars >>

\* the three queries read particles[i] for a 0-based i; the place i + 1 of the
\* model's sequence.  particles[i] is undefined for a negative i, and reading a
\* field of undefined throws a TypeError.
Query(call, i, value) ==
    /\ pc = "idle"
    /\ result' = IF i >= Len(particles) THEN Value(i, value.type, 0, 0)
                 ELSE IF i < 0 THEN Value(i, "TypeError", 0, 0)
                 ELSE value
    /\ lastCall' = call
    /\ UNCHANGED << particles, staticObjects, sources, sinks, grid, fluidVars, boundVars,
                    forceVars, nextId, tickVars >>

\* Simulation.getParticlePosition(i, out): what the call leaves in out.x, out.y
\* ("undefined": out is not written)
getParticlePosition(i) ==
    Query("getParticlePosition", i,
          IF i >= Len(particles) \/ i < 0 THEN Value(i, "undefined", 0, 0)
          ELSE LET p == particles[i + 1]
               IN  IF p.nan THEN Value(i, "NaN", 0, 0)
                   ELSE Value(i, "vec2", p.x * scale, p.y * scale))

\* Simulation.getParticlePressure(i)
getParticlePressure(i) ==
    Query("getParticlePressure", i,
          IF i >= Len(particles) \/ i < 0 THEN Value(i, "number", 0, 0)
          ELSE LET p == particles[i + 1]
               IN  Value(i, "number", Div(p.P, p.rho), 0))

\* Simulation.getParticleVelocity(i)
getParticleVelocity(i) ==
    Query("getParticleVelocity", i,
          IF i >= Len(particles) \/ i < 0 THEN Value(i, "vec2", 0, 0)
          ELSE LET p == particles[i + 1]
               IN  IF p.nan THEN Value(i, "NaN", 0, 0)
                   ELSE Value(i, "vec2", p.Vx, p.Vy))

-----------------------------------------------------------------------------
(* Simulation.doPhysics, sph.ts:485-535.  The call is synchronous: from its  *)
(* entry to its return no other call runs, and pc walks through its          *)
(* statements in program order.                                              *)

\* the bounds of the model on the doPhysics calls that pass the grid check: in
\* any specification, and in those that explore every call of the viewport
MaxTicks == 3
ViewTicks == 2

Range(s) == {s[k] : k \in DOMAIN s}

\* the return of doPhysics
Return ==
    /\ pc' = "idle"
    /\ lastCall' = "doPhysics"
    /\ result' = NoResult

\* doPhysics without its first statement, `if (!grid) return`
doPhysicsWithoutGridCheck(d) ==
    /\ pc = "idle"
    /\ phases' = << >>
    /\ log' = EmptyLog
    /\ ticks < MaxTicks
    /\ now' = now + d
    /\ currentTime' = now'
    /\ grid' = GridReset(grid)
    /\ ticks' = ticks + 1
    /\ pc' = "emit"
    /\ UNCHANGED << particles, staticObjects, sources, sinks, fluidVars, boundVars,
                    forceVars, nextId, lastCall, result >>

\* entry: `if (!grid) return`, currentTime = Date.now(), grid.reset(); d is the
\* time that has passed on the wall clock since the model last read it
doPhysics(d) ==
    /\ pc = "idle"
    /\ phases' = << >>
    /\ log' = EmptyLog
    /\ IF ~grid.exists
       THEN /\ Return
            /\ UNCHANGED << grid, now, currentTime, ticks >>
       ELSE /\ ticks < MaxTicks
            /\ now' = now + d
            /\ currentTime' = now'
            /\ grid' = GridReset(grid)
            /\ ticks' = ticks + 1
            /\ pc' = "emit"
            /\ UNCHANGED << lastCall, result >>
    /\ UNCHANGED << particles, staticObjects, sources, sinks, fluidVars, boundVars,
                    forceVars, nextId >>

\* HandleParticleSources(currentTime); draws[k] is what Math.random() returns
\* to source k
Emit(draws) ==
    /\ pc = "emit"
    /\ LET st == HandleParticleSources(
                    [particles |-> particles, sources |-> sources, nextId |-> nextId,
                     emit |-> << >>], currentTime, draws, 1)
       IN  /\ particles' = st.particles
           /\ sources' = st.sources
           /\ nextId' = st.nextId
           /\ log' = [log EXCEPT !.emit = st.emit]
    /\ phases' = Append(phases, "emit")
    /\ pc' = "drain"
    /\ UNCHANGED << staticObjects, sinks, grid, fluidVars, boundVars, forceVars, now,
                    currentTime, lastCall, result, ticks >>

\* the sinks without the early return that follows them
DrainWithoutReturn ==
    /\ pc = "drain"
    /\ LET st == HandleParticleSinks(
                    [particles |-> particles, sinks |-> sinks, drain |-> << >>],
                    currentTime, 1)
       IN  /\ particles' = st.particles
           /\ sinks' = st.sinks
           /\ log' = [log EXCEPT !.drain = st.drain]
    /\ phases' = Append(phases, "drain")
    /\ pc' = "bind"
    /\ UNCHANGED << staticObjects, sources, grid, fluidVars, boundVars, forceVars, now,
                    currentTime, nextId, lastCall, result, ticks >>

\* the sinks, each retired once it has removed a particle
DrainRetiresSinks ==
    /\ pc = "drain"
    /\ LET st == HandleParticleSinks(
                    [particles |-> particles, sinks |-> sinks, drain |-> << >>],
                    currentTime, 1)
       IN  /\ particles' = st.particles
           /\ sinks' = SelectSeq(st.sinks, LAMBDA s : s.lastVanishTime # currentTime)
           /\ log' = [log EXCEPT !.drain = st.drain]
    /\ phases' = Append(phases, "drain")
    /\ IF Len(particles') = 0 THEN Return ELSE pc' = "bind" /\ UNCHANGED << lastCall, result >>
    /\ UNCHANGED << staticObjects, sources, grid, fluidVars, boundVars, forceVars, now,
                    currentTime, nextId, ticks >>

\* HandleParticleSinks(currentTime), then `if (particles.length === 0) return`
Drain ==
    /\ pc = "drain"
    /\ LET st == HandleParticleSinks(
                    [particles |-> particles, sinks |-> sinks, drain |-> << >>],
                    currentTime, 1)
       IN  /\ particles' = st.particles
           /\ sinks' = st.sinks
           /\ log' = [log EXCEPT !.drain = st.drain]
    /\ phases' = Append(phases, "drain")
    /\ IF Len(particles') = 0 THEN Return ELSE pc' = "bind" /\ UNCHANGED << lastCall, result >>
    /\ UNCHANGED << staticObjects, sources, grid, fluidVars, boundVars, forceVars, now,
                    currentTime, nextId, ticks >>

\* doPhysics with the density pass left out: from the binding straight to the
\* pressures
BindSkipsDensity ==
    /\ pc = "bind"
    /\ grid' = addParticles(grid, particles, 1)
    /\ phases' = Append(phases, "bind")
    /\ pc' = "pressure"
    /\ UNCHANGED << particles, staticObjects, sources, sinks, fluidVars, boundVars,
                    forceVars, now, currentTime, nextId, lastCall, result, ticks, log >>

\* particles.forEach(p => grid.addParticle(p))
Bind ==
    /\ pc = "bind"
    /\ grid' = addParticles(grid, particles, 1)
    /\ phases' = Append(phases, "bind")
    /\ pc' = "density"
    /\ UNCHANGED << particles, staticObjects, sources, sinks, fluidVars, boundVars,
                    forceVars, now, currentTime, nextId, lastCall, result, ticks, log >>

\* grid.pairwise(addDensity)
Density ==
    /\ pc = "density"
    /\ LET pairs == pairwise(grid)
       IN  /\ particles' = DensityPass(particles, pairs, 1)
           /\ log' = [log EXCEPT !.density = pairs]
    /\ phases' = Append(phases, "density")
    /\ pc' = "pressure"
    /\ UNCHANGED << staticObjects, sources, sinks, grid, fluidVars, boundVars, forceVars,
                    now, currentTime, nextId, lastCall, result, ticks >>

\* particles.forEach(p => p.P = Math.max(K * (p.rho - RHO0), 0))
Pressure ==
    /\ pc = "pressure"
    /\ particles' = PressurePass(particles)
    /\ phases' = Append(phases, "pressure")
    /\ pc' = "forces"
    /\ UNCHANGED << staticObjects, sources, sinks, grid, fluidVars, boundVars, forceVars,
                    now, currentTime, nextId, lastCall, result, ticks, log >>

\* grid.pairwise(addForces)
Forces ==
    /\ pc = "forces"
    /\ LET pairs == pairwise(grid)
       IN  /\ particles' = ForcePass(particles, pairs, 1)
           /\ log' = [log EXCEPT !.forces = pairs]
    /\ phases' = Append(phases, "forces")
    /\ pc' = "forcedVelocity"
    /\ UNCHANGED << staticObjects, sources, sinks, grid, fluidVars, boundVars, forceVars,
                    now, currentTime, nextId, lastCall, result, ticks >>

\* the particles of the cell forceVelocityCell refers to
ForcedCellParticles ==
    IF forceVelocityCell.gen = grid.gen
    THEN grid.cells[forceVelocityCell.idx]
    ELSE forceVelocityCell.held

\* CalcForcedVelocity without its last statement, forceVelocityOn = false
CalcForcedVelocityStaysArmed ==
    IF ~forceVelocityOn \/ forceVelocityCell.kind # "cell"
    THEN [particles |-> particles, on |-> forceVelocityOn, forced |-> << >>]
    ELSE [particles |->
             [k \in 1..Len(particles) |->
                 IF particles[k].id \in Range(ForcedCellParticles)
                 THEN [particles[k] EXCEPT !.Vx = forceVx, !.Vy = forceVy,
                                           !.Fx = 0, !.Fy = 0]
                 ELSE particles[k]],
          on |-> forceVelocityOn,
          forced |-> ForcedCellParticles]

\* CalcForcedVelocity(), sph.ts:254-264
CalcForcedVelocity ==
    IF ~forceVelocityOn \/ forceVelocityCell.kind # "cell"
    THEN [particles |-> particles, on |-> forceVelocityOn, forced |-> << >>]
    ELSE [particles |->
             [k \in 1..Len(particles) |->
                 IF particles[k].id \in Range(ForcedCellParticles)
                 THEN [particles[k] EXCEPT !.Vx = forceVx, !.Vy = forceVy,
                                           !.Fx = 0, !.Fy = 0]
                 ELSE particles[k]],
          on |-> FALSE,
          forced |-> ForcedCellParticles]

ForcedVelocity ==
    /\ pc = "forcedVelocity"
    /\ LET st == CalcForcedVelocity
       IN  /\ particles' = st.particles
           /\ forceVelocityOn' = st.on
           /\ log' = [log EXCEPT !.forced = st.forced]
    /\ phases' = Append(phases, "forcedVelocity")
    /\ pc' = "gridReset"
    /\ UNCHANGED << staticObjects, sources, sinks, grid, fluidVars, boundVars, forceVx,
                    forceVy, forceVelocityCell, request, now, currentTime, nextId, lastCall, result,
                    ticks >>

\* grid.reset() before the positions are updated
ResetGrid ==
    /\ pc = "gridReset"
    /\ grid' = GridReset(grid)
    /\ phases' = Append(phases, "gridReset")
    /\ pc' = "integrate"
    /\ UNCHANGED << particles, staticObjects, sources, sinks, fluidVars, boundVars,
                    forceVars, now, currentTime, nextId, lastCall, result, ticks, log >>

\* the body of the loop sph.ts:517-530 for one particle
IntegrateParticle(p) ==
    reset(update(HandleBoundaryCollisions(HandleObstacleCollisions(p))))

\* the loop over the particles and the return
Integrate ==
    /\ pc = "integrate"
    /\ particles' = [k \in 1..Len(particles) |-> IntegrateParticle(particles[k])]
    /\ grid' = addParticles(grid, particles', 1)
    /\ phases' = Append(phases, "integrate")
    /\ Return
    /\ UNCHANGED << staticObjects, sources, sinks, fluidVars, boundVars, forceVars, now,
                    currentTime, nextId, ticks, log >>

-----------------------------------------------------------------------------
(* The environment: the arguments and random draws the model explores       *)

\* init(width, height, left, right, bottom, top) as the viewport calls it
InitArgs ==
    { [width |-> 90, height |-> 60, left |-> 0, right |-> 90, bottom |-> 0, top |-> 60] }

\* the values Math.random() returns to the randomPos calls of one init: two
\* particles within H of each other in the middle of the domain, or one close
\* to the right side and one on the left side (Math.random() returning 0)
RandomPatterns ==
    { << << 50, 50 >>, << 56, 50 >> >>, << << 99, 50 >>, << 0, 50 >> >> }
InitDraws ==
    { [k \in 1..InitCount |-> pat[((k - 1) % 2) + 1]] : pat \in RandomPatterns }

\* the sliders of the control panel moved: a heavier particle, a weaker gas
\* constant, the largest rest density
FluidChoices ==
    { [ParticleMass |-> 2 * FP, GasConstant |-> 5 * FP, RestDensity |-> 2 * FP,
       Viscosity |-> FP] }

\* pointer events: over the cell of the right side, and above the viewport
ForceArgs ==
    { [x |-> 84, y |-> 25, Vx |-> 8, Vy |-> 6],
      [x |-> 45, y |-> -60, Vx |-> 8, Vy |-> 6] }

Shapes ==
    { StaticPlane(0, 172, 90, 40, 20), StaticCircle(0, 150, 100, 20) }

\* the time between two reads of the clock
ClockSteps == { 16 }

NoDraws == << >>

\* a line source on the left side of the domain, one emission every 20 ms
SourceArgs ==
    { [x |-> 5, y |-> 30, dirx |-> FP, diry |-> 0, spawnLength |-> 30, rate |-> 50,
       velocity |-> FP] }

\* a source on the right side of a plane in the middle of the domain
PlaneSourceArgs ==
    { [plane |-> StaticPlane(90, 100, 50, 50, 100), spawnSide |-> "right", rate |-> 100,
       velocity |-> FP] }

\* the Math.random() values one source consumes
SourceDraws == { << 50, 0, 50, 50 >>, << 50, 99, 50, 50 >> }

\* a point sink in the middle of the domain, one removal every 10 ms
SinkArgs ==
    { [x |-> 45, y |-> 30, rate |-> 100, sinkRange |-> FP \div 2] }

\* a sink on the left side of a plane, one removal every 20 ms
PlaneSinkArgs ==
    { [plane |-> StaticPlane(91, 100, 50, 100, 100), sinkSide |-> "left", rate |-> 50,
       sinkRange |-> FP \div 2] }

\* the steps of a doPhysics call after its entry and its sources
Steps ==
    \/ Drain
    \/ Bind
    \/ Density
    \/ Pressure
    \/ Forces
    \/ ForcedVelocity
    \/ ResetGrid
    \/ Integrate

\* the engine driven by the viewport: particles, fluid parameters, the pointer,
\* obstacles and ticks
Next ==
    \/ \E a \in InitArgs, draws \in InitDraws : init(a, draws)
    \/ \E params \in FluidChoices : setFluidProperties(params)
    \/ \E a \in ForceArgs : forceVelocity(a)
    \/ \E shape \in Shapes : Len(staticObjects) < TickObstacles /\ addStaticObject(shape)
    \/ \E d \in ClockSteps : (grid.exists => ticks < ViewTicks) /\ doPhysics(d)
    \/ Emit(NoDraws)
    \/ Steps

Spec == Init /\ [][Next]_vars

\* the engine with sources and sinks
NextFlow ==
    \/ \E a \in InitArgs, draws \in InitDraws : init(a, draws)
    \/ \E a \in SourceArgs : Len(sources) < FlowSources /\ addParticleSource(a)
    \/ \E a \in PlaneSourceArgs :
           Len(sources) < FlowSources /\ addParticleSourceFromPlane(a)
    \/ \E a \in SinkArgs : addParticleSink(a)
    \/ \E a \in PlaneSinkArgs : addParticleSinkFromPlane(a)
    \/ \E d \in ClockSteps : (grid.exists => ticks < ViewTicks) /\ doPhysics(d)
    \/ \E draws \in [1..Len(sources) -> SourceDraws] : Emit(draws)
    \/ Steps

SpecFlow == Init /\ [][NextFlow]_vars

-----------------------------------------------------------------------------
(* Sources on their own: up to MaxSources sources of four kinds, added       *)
(* before or between ticks that are as far apart as the fast sources'       *)
(* interval                                                                  *)

\* addParticleSource(pos, direction, spawnLength, rate, velocity) in the middle
\* of the domain, direction (1, 0), velocity 2: a line source, a source of
\* length 0, a source of rate 0, and a source that emits every 100 ms
EmitArgs ==
    { [x |-> 45, y |-> 30, dirx |-> FP, diry |-> 0, spawnLength |-> len, rate |-> rate,
       velocity |-> 2 * FP] :
          << len, rate >> \in { << 30, 50 >>, << 0, 50 >>, << 30, 0 >>, << 30, 10 >> } }

\* the Math.random() values one source consumes: the ends of the velocity
\* band, and a half and a quarter turn for the angle of a point source
EmitDraws == { << 50, 50, 0, 99 >>, << 25, 99, 99, 0 >> }

EmitClock == { 20 }

NextEmit ==
    \/ \E a \in InitArgs, draws \in InitDraws : init(a, draws)
    \/ \E a \in EmitArgs : addParticleSource(a)
    \/ \E d \in EmitClock : (grid.exists => ticks < ViewTicks) /\ doPhysics(d)
    \/ \E draws \in [1..Len(sources) -> EmitDraws] : Emit(draws)
    \/ Steps

SpecEmit == Init /\ [][NextEmit]_vars

-----------------------------------------------------------------------------
(* The lifecycle: the clearing calls and the queries, around a tick of an    *)
(* engine with particles, an obstacle, a source, a sink and the pointer      *)

\* the bounds of the model on the identities it hands out, and on the sinks and
\* the ticks of the lifecycle
MaxIds == 6
LifeSinks == 1
LifeTicks == 1

\* the indices the queries are called with: the first particle, one below the
\* range and one beyond it
Indices == { 0 - 1, 0, Len(particles) }

\* the particles of init within H of each other, in the range of the sink
LifeDraws == { draws \in InitDraws : draws[1] = << 50, 50 >> }

\* the pointer over the cell of the right side
LifeForceArgs == { a \in ForceArgs : a.y >= 0 }

NextLife ==
    \/ \E a \in InitArgs, draws \in LifeDraws : nextId + InitCount <= MaxIds /\ init(a, draws)
    \/ \E shape \in Shapes :
           /\ nextId < MaxIds /\ Len(staticObjects) < TickObstacles
           /\ addStaticObject(shape)
    \/ \E a \in SourceArgs :
           /\ nextId < MaxIds /\ Len(sources) < FlowSources
           /\ addParticleSource(a)
    \/ \E a \in SinkArgs :
           /\ nextId < MaxIds /\ Len(sinks) < LifeSinks
           /\ addParticleSink(a)
    \/ \E a \in LifeForceArgs : forceVelocity(a)
    \/ cleanup
    \/ clearParticlesOnly
    \/ \E i \in Indices : getParticlePosition(i)
    \/ \E i \in Indices : getParticlePressure(i)
    \/ \E i \in Indices : getParticleVelocity(i)
    \/ \E d \in ClockSteps : (grid.exists => ticks < LifeTicks) /\ doPhysics(d)
    \/ \E draws \in [1..Len(sources) -> SourceDraws] : Emit(draws)
    \/ Steps

SpecLife == Init /\ [][NextLife]_vars

-----------------------------------------------------------------------------
(* Obstacles added and removed, with sources and sinks attached to them or   *)
(* not                                                                       *)

\* the bound of the model on the identities it hands out to obstacles, sources
\* and sinks
ObstacleIds == 5

\* the planes a source or a sink is attached to: the planes among the
\* obstacles, and a plane that is no obstacle
Planes ==
    { o \in Range(staticObjects) : o.type = "plane" } \cup { StaticPlane(90, 100, 50, 50, 100) }

NextObstacles ==
    \/ \E shape \in Shapes : nextId <= ObstacleIds /\ addStaticObject(shape)
    \/ \E k \in DOMAIN staticObjects : addStaticObjectAgain(k)
    \/ \E a \in SourceArgs : nextId <= ObstacleIds /\ addParticleSource(a)
    \/ \E plane \in Planes :
           /\ nextId <= ObstacleIds
           /\ addParticleSourceFromPlane([plane |-> plane, spawnSide |-> "right",
                                          rate |-> 100, velocity |-> FP])
    \/ \E a \in SinkArgs : nextId <= ObstacleIds /\ addParticleSink(a)
    \/ \E plane \in Planes :
           /\ nextId <= ObstacleIds
           /\ addParticleSinkFromPlane([plane |-> plane, sinkSide |-> "left",
                                        rate |-> 50, sinkRange |-> FP \div 2])
    \/ \E obj \in Range(staticObjects) \cup Planes : removeStaticObject(obj)
    \/ clearStaticObjects

SpecObstacles == Init /\ [][NextObstacles]_vars

-----------------------------------------------------------------------------
(* The grid on its own: ParticleGrid built for any dimensions, particles     *)
(* bound to it one by one, and pairwise run on what is bound                 *)

\* the bounds of the model on the dimensions of the grid and on its particles
MaxDim == 3
MaxBound == 3

\* new ParticleGrid(nx, ny, w, h, CELL_MAX_PARTICLES) with cells of size H
InitGrid ==
    /\ particles = << >>
    /\ staticObjects = << >>
    /\ sources = << >>
    /\ sinks = << >>
    /\ \E nx \in 1..MaxDim, ny \in 1..MaxDim : grid = NewGrid(1, nx, ny, nx * H, ny * H)
    /\ M = FP
    /\ K = 150 * FP
    /\ RHO0 = FP \div 2
    /\ MU = 3 * FP
    /\ xmin = 0 /\ ymin = 0
    /\ xmax = grid.w /\ ymax = grid.h
    /\ forceVelocityOn = FALSE
    /\ forceVx = 0 /\ forceVy = 0
    /\ forceVelocityCell = NullCell
    /\ now = 0
    /\ pc = "idle"
    /\ currentTime = 0
    /\ nextId = 1
    /\ lastCall = "none"
    /\ ticks = 0
    /\ phases = << >>
    /\ request = NoRequest
    /\ log = EmptyLog
    /\ result = NoResult

\* grid.addParticle(p) for a new particle in the middle of cell (i, j)
BindParticle(i, j) ==
    /\ Len(particles) < MaxBound
    /\ LET p == SPHParticle(nextId, M, i * H + H \div 2, j * H + H \div 2)
       IN  /\ particles' = Append(particles, p)
           /\ grid' = addParticle(grid, p)
    /\ nextId' = nextId + 1
    /\ lastCall' = "addParticle"
    /\ result' = NoResult
    /\ UNCHANGED << staticObjects, sources, sinks, fluidVars, boundVars, forceVars,
                    tickVars >>

\* grid.pairwise(interaction), the calls of the interaction logged in order
Pairwise ==
    /\ log' = [log EXCEPT !.density = pairwise(grid)]
    /\ lastCall' = "pairwise"
    /\ result' = NoResult
    /\ UNCHANGED << particles, staticObjects, sources, sinks, grid, fluidVars, boundVars,
                    forceVars, now, pc, currentTime, nextId, ticks, phases >>

NextGrid ==
    \/ \E i \in 0..(grid.nx - 1), j \in 0..(grid.ny - 1) : BindParticle(i, j)
    \/ Pairwise

SpecGrid == InitGrid /\ [][NextGrid]_vars

-----------------------------------------------------------------------------
(* Properties of the tick                                                   *)

\* doPhysics has returned and no other call has been made since
AfterTick == pc = "idle" /\ lastCall = "doPhysics"

\* the phases of a complete tick, in program order
AllPhases ==
    << "emit", "drain", "bind", "density", "pressure", "forces", "forcedVelocity",
       "gridReset", "integrate" >>

IsPrefix(s, t) == Len(s) <= Len(t) /\ \A k \in DOMAIN s : s[k] = t[k]

\* some particle that is there before and after the step has its field f changed
Changed(f) ==
    \E i \in DOMAIN particles, j \in DOMAIN particles' :
        particles[i].id = particles'[j].id /\ particles[i][f] # particles'[j][f]

\* C1: after any doPhysics call every particle that has a position is inside
\* the domain: xmin <= x <= xmax and ymin <= y <= ymax.
C1_PositionsInDomain ==
    AfterTick =>
        \A k \in DOMAIN particles :
            ~particles[k].nan => InBounds(particles[k].x, particles[k].y)

\* C2: after any doPhysics call no particle is inside an obstacle: for every
\* obstacle o and every particle p that has a position, o.distanceTo(p) >= 0 up
\* to the 0.01 the collision response leaves.
C2_NoPenetration ==
    AfterTick =>
        \A o \in DOMAIN staticObjects, k \in DOMAIN particles :
            ~particles[k].nan =>
                distanceTo(staticObjects[o], particles[k].x, particles[k].y) >= -Margin

\* C3: after any doPhysics call the speed of every particle is a number and is
\* at most V_MAX = 10.
C3_SpeedBounded ==
    AfterTick =>
        \A k \in DOMAIN particles :
            ~particles[k].nan /\ Length(particles[k].Vx, particles[k].Vy) <= V_MAX

\* C4 as amended: in every state every particle has density >= p.M * Wpoly6(0),
\* p.M being the mass parameter at the creation of the particle, and pressure
\* >= 0, whatever setFluidProperties calls, particle creations and ticks came
\* before.
C4_DensityFloor ==
    \A k \in DOMAIN particles :
        /\ particles[k].rho >= Mul(particles[k].M, Wpoly6(0))
        /\ particles[k].P >= 0

\* C4 as stated: after any doPhysics call every particle has density
\* >= M * Wpoly6(0) for the M the engine has now, and pressure >= 0.
C4_DensityFloorCurrentMass ==
    AfterTick =>
        \A k \in DOMAIN particles :
            /\ particles[k].rho >= Mul(M, Wpoly6(0))
            /\ particles[k].P >= 0

\* a tick has ended for a particle created before setFluidProperties raised M,
\* whose pressure the clamp at 0 has set
C4_Witness ==
    /\ AfterTick
    /\ \E k \in DOMAIN particles :
          /\ particles[k].M < M
          /\ particles[k].rho = Mul(particles[k].M, Wpoly6(0))
          /\ Mul(K, particles[k].rho - RHO0) < 0
          /\ particles[k].P = 0

\* C7: within one doPhysics call the densities of all pairs are accumulated
\* before any pressure is derived, all pressures are derived before any pair
\* force is computed, and all pair forces are accumulated before any particle is
\* integrated: a step changes a pressure only in the pressure pass, which finds
\* the density pass done on every pair; it changes a density only in the density
\* pass or in the reset that ends the integration; it changes a force only once
\* the pressure pass is done and finds every pressure derived from the density;
\* it changes a position only in the integration, with the force pass done.
C7_PassOrder ==
    [][ /\ IsPrefix(phases', AllPhases)
        /\ Changed("P") =>
              /\ pc = "pressure"
              /\ phases = << "emit", "drain", "bind", "density" >>
              /\ LET full == DensityPass([k \in DOMAIN particles |-> reset(particles[k])],
                                         pairwise(grid), 1)
                 IN  \A k \in DOMAIN particles : particles[k].rho = full[k].rho
        /\ Changed("rho") => pc \in {"density", "integrate"}
        /\ pc = "forces" =>
              /\ ~Changed("P") /\ ~Changed("rho")
              /\ \A k \in DOMAIN particles :
                    particles[k].P = Max2(Mul(K, particles[k].rho - RHO0), 0)
        /\ (Changed("Fx") \/ Changed("Fy")) =>
              /\ pc \in {"forces", "forcedVelocity", "integrate"}
              /\ \E n \in DOMAIN phases : phases[n] = "pressure"
        /\ (Changed("x") \/ Changed("y") \/ Changed("nan")) =>
              /\ pc = "integrate"
              /\ \E n \in DOMAIN phases : phases[n] = "forces"
      ]_vars

\* a complete tick in which a pair within H of each other raised the densities
\* and the pressures and pushed the two particles apart
C7_Witness ==
    /\ AfterTick
    /\ phases = AllPhases
    /\ Len(log.density) > 0
    /\ \E k \in DOMAIN particles :
          particles[k].P > 0 /\ (particles[k].Vx # 0 \/ particles[k].Vy # 0)

\* C8 as amended: a forceVelocity request is consumed by the first doPhysics that
\* reaches CalcForcedVelocity with a target cell: that step gives every particle
\* bound to the cell the velocity (dVx, -dVy) and the force 0, leaves the other
\* particles alone and disarms the flag.  A step of CalcForcedVelocity that finds
\* the flag disarmed, or no target cell, changes no particle and leaves the flag
\* as it is.  Only forceVelocity arms the flag and only CalcForcedVelocity
\* disarms it.
C8_OneShot ==
    [][ /\ pc = "forcedVelocity" =>
              IF forceVelocityOn /\ forceVelocityCell.kind = "cell"
              THEN /\ ~forceVelocityOn'
                   /\ \A k \in DOMAIN particles :
                         IF particles[k].id \in Range(grid.cells[forceVelocityCell.idx])
                         THEN particles'[k] =
                                 [particles[k] EXCEPT !.Vx = request.Vx * FP,
                                                      !.Vy = -(request.Vy * FP),
                                                      !.Fx = 0, !.Fy = 0]
                         ELSE particles'[k] = particles[k]
              ELSE /\ forceVelocityOn' = forceVelocityOn
                   /\ \A k \in DOMAIN particles : particles'[k] = particles[k]
        /\ (~forceVelocityOn /\ forceVelocityOn') => lastCall' = "forceVelocity"
        /\ (forceVelocityOn /\ ~forceVelocityOn') => pc = "forcedVelocity"
      ]_vars

\* C8 as stated: the first doPhysics after a forceVelocity call consumes the
\* request, so the flag is disarmed whenever a doPhysics call returns.
C8_DisarmedAfterTick == AfterTick => ~forceVelocityOn

\* CalcForcedVelocity has just overridden a particle of the target cell with a
\* request whose dVy is not 0
C8_Witness ==
    /\ pc = "gridReset"
    /\ ~forceVelocityOn
    /\ request.Vy # 0
    /\ \E k \in DOMAIN particles :
          /\ particles[k].id \in Range(log.forced)
          /\ particles[k].Vx = request.Vx * FP
          /\ particles[k].Vy = -(request.Vy * FP)

-----------------------------------------------------------------------------
(* Properties of the grid                                                   *)

\* the cells c and d touch by a side or by a corner
AdjacentCells(c, d) ==
    /\ c # d
    /\ Abs((c % grid.nx) - (d % grid.nx)) <= 1
    /\ Abs((c \div grid.nx) - (d \div grid.nx)) <= 1

\* the cells the particle with identity id is bound to
CellsOf(id) == {c \in DOMAIN grid.cells : id \in Range(grid.cells[c])}

\* the number of calls of the interaction on the particles p and q, in either order
Calls(p, q) ==
    Cardinality({n \in DOMAIN log.density :
                    log.density[n] = << p, q >> \/ log.density[n] = << q, p >>})

\* C5: for any grid dimensions nx, ny >= 1 and any assignment of particles to
\* cells, pairwise calls the interaction exactly once on each unordered pair of
\* distinct particles in the same cell or in 8-adjacent cells, and on no other
\* pair, never on (p, p); no cell is its own half-neighbour, no cell is twice
\* in a half-neighbour list, of two adjacent cells exactly one is a
\* half-neighbour of the other, and cells that are not adjacent are not.
C5_PairwiseOnce ==
    /\ \A c \in DOMAIN grid.cells :
          LET nbs == grid.neighborsTR[c]
          IN  /\ \A m, n \in DOMAIN nbs : nbs[m] = nbs[n] => m = n
              /\ c \notin Range(nbs)
              /\ \A d \in DOMAIN grid.cells \ {c} :
                    IF AdjacentCells(c, d)
                    THEN (d \in Range(nbs)) # (c \in Range(grid.neighborsTR[d]))
                    ELSE d \notin Range(nbs)
    /\ lastCall = "pairwise" =>
          \A i, j \in DOMAIN particles :
              LET p == particles[i].id
                  q == particles[j].id
                  near == \E c \in CellsOf(p), d \in CellsOf(q) : c = d \/ AdjacentCells(c, d)
              IN  Calls(p, q) = IF p # q /\ near THEN 1 ELSE 0

\* pairwise has run on a grid three columns wide with two particles in one cell
\* and a third in the cell above and to the left of it
C5_Witness ==
    /\ lastCall = "pairwise"
    /\ grid.nx = MaxDim
    /\ Len(log.density) = 3
    /\ \E c \in DOMAIN grid.cells :
          /\ Len(grid.cells[c]) = 2
          /\ c % grid.nx > 0
          /\ (c + grid.nx - 1) \in DOMAIN grid.cells
          /\ Len(grid.cells[c + grid.nx - 1]) = 1

-----------------------------------------------------------------------------
(* Properties of the sources, the sinks and the phases                      *)

\* C6 as amended: a doPhysics call made after init runs emit and drain once; if
\* the sinks leave no particle it returns there; otherwise it runs bind, density,
\* pressure, forces, forcedVelocity, gridReset and integrate once each, in that
\* order, before it returns.
C6_PhasesOnce ==
    /\ IsPrefix(phases, AllPhases)
    /\ (AfterTick /\ grid.exists) =>
          phases = IF Len(particles) = 0 THEN << "emit", "drain" >> ELSE AllPhases

\* C6 as stated: every doPhysics call made after init runs each of the nine
\* phases exactly once before it returns.
C6_AllPhasesRun == (AfterTick /\ grid.exists) => phases = AllPhases

\* a doPhysics call has returned after the sinks removed the last particle
C6_Witness ==
    /\ AfterTick
    /\ grid.exists
    /\ Len(particles) = 0
    /\ phases = << "emit", "drain" >>
    /\ \E k \in DOMAIN log.drain : Len(log.drain[k].removed) = 1

\* the identities of the particles the sinks before sink k removed, given what
\* HandleParticleSinks logged
RemovedBefore(d, k) ==
    {d[j].removed[1].id : j \in {j \in 1..(k - 1) : Len(d[j].removed) > 0}}

\* C9: in one doPhysics call each sink removes at most one particle, and removes
\* one exactly when now - lastVanishTime >= 1000 / rate and some particle still
\* there is eligible; the particle removed is an eligible one; lastVanishTime
\* is set to now exactly when the sink removed a particle and is otherwise
\* unchanged; the other particles stay, in their order.
C9_SinkRemovesOne ==
    [][ pc = "drain" =>
          LET d == log'.drain
              gone == RemovedBefore(d, Len(sinks) + 1)
              kept == SelectSeq(particles, LAMBDA p : p.id \notin gone)
          IN  /\ Len(d) = Len(sinks)
              /\ Len(sinks') = Len(sinks)
              /\ Len(particles') = Len(kept)
              /\ \A i \in DOMAIN kept : particles'[i] = kept[i]
              /\ Len(particles) - Len(particles')
                    = Cardinality({k \in DOMAIN d : Len(d[k].removed) > 0})
              /\ \A k \in DOMAIN sinks :
                    LET due == /\ sinks[k].rate > 0
                               /\ (currentTime - sinks[k].lastVanishTime) * sinks[k].rate
                                     >= 1000
                        eligible ==
                            {i \in DOMAIN particles :
                                /\ particles[i].id \notin RemovedBefore(d, k)
                                /\ shouldRemoveParticle(sinks[k], particles[i])}
                    IN  /\ Len(d[k].removed) <= 1
                        /\ (Len(d[k].removed) = 1) <=> (due /\ eligible # {})
                        /\ Len(d[k].removed) = 1 =>
                              \E i \in eligible : particles[i] = d[k].removed[1]
                        /\ sinks'[k] =
                              [sinks[k] EXCEPT !.lastVanishTime =
                                  IF Len(d[k].removed) = 1 THEN currentTime ELSE @]
      ]_vars

\* a sink whose interval had elapsed has removed one of two eligible particles,
\* and the particle it removed was not the last of the sequence
C9_Witness ==
    /\ pc = "bind"
    /\ \E k \in DOMAIN sinks :
          /\ Len(log.drain[k].removed) = 1
          /\ sinks[k].lastVanishTime = currentTime
          /\ \E i \in DOMAIN particles : shouldRemoveParticle(sinks[k], particles[i])
          /\ log.drain[k].removed[1].id < particles[Len(particles)].id

\* C10: when the emit condition of a source holds in a tick (interval elapsed
\* and fewer than SIM_MAX_PARTICLES particles), a particle is appended if and
\* only if the sampled position is inside the domain bounds, at that position
\* and with the sampled velocity, and lastSpawnTime is set to now either way;
\* when the condition does not hold the source changes neither the particles nor
\* its lastSpawnTime.  The particles that were there are not changed.
C10_EmitIffInside ==
    [][ pc = "emit" =>
          LET e == log'.emit
              pushedBefore(k) == Cardinality({j \in 1..(k - 1) : e[j].pushed # 0})
          IN  /\ Len(e) = Len(sources)
              /\ Len(sources') = Len(sources)
              /\ Len(particles') = Len(particles) + pushedBefore(Len(sources) + 1)
              /\ \A i \in DOMAIN particles : particles'[i] = particles[i]
              /\ \A k \in DOMAIN sources :
                    LET due == /\ sources[k].rate > 0
                               /\ (currentTime - sources[k].lastSpawnTime) * sources[k].rate
                                     >= 1000
                        count == Len(particles) + pushedBefore(k)
                        cond == due /\ count < SIM_MAX_PARTICLES
                        s == e[k].sample
                        inside == /\ xmin <= s.x /\ s.x <= xmax
                                  /\ ymin <= s.y /\ s.y <= ymax
                    IN  /\ (e[k].pushed # 0) <=> (cond /\ inside)
                        /\ e[k].pushed # 0 =>
                              LET p == particles'[count + 1]
                              IN  /\ p.id = e[k].pushed
                                  /\ p.x = s.x /\ p.y = s.y
                                  /\ p.Vx = s.Vx /\ p.Vy = s.Vy
                        /\ sources'[k] =
                              [sources[k] EXCEPT !.lastSpawnTime =
                                  IF cond THEN currentTime ELSE @]
      ]_vars

\* the emit condition of a source held and its sample fell outside the domain:
\* no particle was appended and lastSpawnTime was set to now
C10_Witness ==
    /\ pc = "drain"
    /\ \E k \in DOMAIN sources :
          /\ log.emit[k].cond
          /\ ~log.emit[k].inside
          /\ log.emit[k].pushed = 0
          /\ log.emit[k].last < currentTime
          /\ sources[k].lastSpawnTime = currentTime

-----------------------------------------------------------------------------
(* Properties of the sources                                                *)

\* a step of a doPhysics call: its entry, one of its phases, or its return
TickStep == pc # "idle" \/ pc' # "idle"

\* now - last_emit_timestamp >= 1000/rate for a positive rate
Due(elapsed, rate) == rate > 0 /\ elapsed * rate >= 1000

\* C11: a doPhysics call that starts with at most SIM_MAX_PARTICLES particles
\* ends with at most SIM_MAX_PARTICLES particles, however many sources fire in
\* the tick: no step of the call takes the count from at most the maximum to
\* above it.
C11_CapKept ==
    [][(TickStep /\ Len(particles) <= SIM_MAX_PARTICLES)
           => Len(particles') <= SIM_MAX_PARTICLES]_vars

\* two sources are due in the same tick with one particle short of the maximum:
\* the first emits, and the second, due as well, finds the count at the maximum
C11_Witness ==
    /\ pc = "drain"
    /\ Len(log.emit) = 2
    /\ log.emit[1].pushed # 0
    /\ log.emit[1].count = SIM_MAX_PARTICLES - 1
    /\ Due(currentTime - log.emit[2].last, sources[2].rate)
    /\ log.emit[2].count = SIM_MAX_PARTICLES
    /\ log.emit[2].pushed = 0
    /\ Len(particles) = SIM_MAX_PARTICLES

\* v is base * (1 + N) for an N in [-0.15, 0.15]
InBand(v, base) == 100 * Abs(v - base) <= 15 * Abs(base)

\* C12: every particle emitted by a source that was added with
\* addParticleSource(pos, direction, length, rate, velocity) has the initial
\* velocity direction * velocity * (1 + N), N in [-0.15, 0.15] per component,
\* for every length >= 0, the length 0 included.
C12_LineVelocity ==
    pc = "drain" =>
        \A k \in DOMAIN log.emit :
            (log.emit[k].pushed # 0 /\ sources[k].staticPlane = NoPlane.id) =>
                /\ InBand(log.emit[k].sample.Vx, Mul(sources[k].dirx, sources[k].velocity))
                /\ InBand(log.emit[k].sample.Vy, Mul(sources[k].diry, sources[k].velocity))

\* the sources whose interval has not elapsed at the time of the running tick:
\* rate 0, or now - last_emit_timestamp < 1000/rate
Waiting ==
    { k \in DOMAIN sources :
        ~Due(currentTime - sources[k].lastSpawnTime, sources[k].rate) }

\* C13: a source with rate 0, or whose interval 1000/rate has not elapsed since
\* its last emit timestamp, adds no particle: the emit phase adds at most one
\* particle per source that is due, pushes none for a source that is not and
\* leaves its timestamp alone, and no later phase of the call adds a particle.
C13_NoEmitBeforeInterval ==
    [][/\ (pc = "emit" /\ pc' = "drain") =>
            /\ Len(particles') - Len(particles) <= Len(sources) - Cardinality(Waiting)
            /\ \A k \in Waiting :
                  /\ sources'[k].lastSpawnTime = sources[k].lastSpawnTime
                  /\ log'.emit[k].pushed = 0
       /\ (pc # "idle" /\ pc # "emit") => Len(particles') <= Len(particles)]_vars

\* the emit phase of a tick has run, time having passed, over a source of rate
\* 0 and a source of a positive rate whose interval has not elapsed
C13_Witness ==
    /\ pc = "drain"
    /\ \E k \in DOMAIN sources :
          /\ sources[k].rate = 0
          /\ currentTime > sources[k].lastSpawnTime
    /\ \E k \in DOMAIN sources :
          /\ sources[k].rate > 0
          /\ currentTime > sources[k].lastSpawnTime
          /\ (currentTime - sources[k].lastSpawnTime) * sources[k].rate < 1000
    /\ Len(particles) > 0

-----------------------------------------------------------------------------
(* Properties of the lifecycle calls                                        *)

\* the step of a call that is made and returns between two ticks
CallStep(call) == pc = "idle" /\ pc' = "idle" /\ lastCall' = call

\* C14: cleanup() leaves the engine with zero particles, zero sources, zero
\* sinks and the forced-velocity flag disarmed, keeps the same grid object with
\* every cell count zero, and leaves obstacles, domain bounds and fluid
\* parameters unchanged.
C14_Cleanup ==
    [][CallStep("cleanup") =>
          /\ Len(particles') = 0
          /\ Len(sources') = 0
          /\ Len(sinks') = 0
          /\ ~forceVelocityOn'
          /\ grid'.exists = grid.exists
          /\ grid'.gen = grid.gen
          /\ grid'.nx = grid.nx /\ grid'.ny = grid.ny
          /\ grid'.w = grid.w /\ grid'.h = grid.h
          /\ grid'.neighborsTR = grid.neighborsTR
          /\ DOMAIN grid'.cells = DOMAIN grid.cells
          /\ \A c \in DOMAIN grid'.cells : Len(grid'.cells[c]) = 0
          /\ staticObjects' = staticObjects
          /\ UNCHANGED << xmin, ymin, xmax, ymax >>
          /\ UNCHANGED << M, K, RHO0, MU >>]_vars

\* cleanup has returned on an engine whose one tick ran all its phases over a
\* source and a sink, with an obstacle and a forced-velocity request made
C14_Witness ==
    /\ pc = "idle"
    /\ lastCall = "cleanup"
    /\ grid.exists
    /\ phases = AllPhases
    /\ Len(log.emit) > 0
    /\ Len(log.drain) > 0
    /\ Len(staticObjects) > 0
    /\ request # NoRequest
    /\ Len(particles) = 0
    /\ Len(sources) = 0
    /\ Len(sinks) = 0

\* C15: clearParticlesOnly() empties the particle sequence and leaves the
\* sequences of sources, sinks and obstacles, with the sources' and the sinks'
\* timestamps, unchanged.
C15_ClearParticlesOnly ==
    [][CallStep("clearParticlesOnly") =>
          /\ Len(particles') = 0
          /\ sources' = sources
          /\ sinks' = sinks
          /\ staticObjects' = staticObjects]_vars

\* clearParticlesOnly has returned after a tick that ran all its phases and in
\* which a sink removed a particle; the source, the sink with the timestamp of
\* that removal, and the obstacle are there
C15_Witness ==
    /\ pc = "idle"
    /\ lastCall = "clearParticlesOnly"
    /\ phases = AllPhases
    /\ Len(particles) = 0
    /\ Len(sources) > 0
    /\ Len(staticObjects) > 0
    /\ \E k \in DOMAIN sinks :
          /\ k \in DOMAIN log.drain
          /\ Len(log.drain[k].removed) > 0
          /\ sinks[k].lastVanishTime = currentTime

\* the three queries
Queries == { "getParticlePosition", "getParticlePressure", "getParticleVelocity" }

\* C18: for every index i that is out of range for the particle sequence,
\* getParticlePressure(i) returns 0, getParticleVelocity(i) returns the zero
\* vector and getParticlePosition(i, out) completes without error.
C18_SafeDefaults ==
    (/\ pc = "idle"
     /\ lastCall \in Queries
     /\ (result.arg < 0 \/ result.arg >= Len(particles))) =>
        /\ result.type # "TypeError"
        /\ lastCall = "getParticlePressure" => (result.type = "number" /\ result.x = 0)
        /\ lastCall = "getParticleVelocity" =>
              (result.type = "vec2" /\ result.x = 0 /\ result.y = 0)

\* the variables of the engine (without the history the model keeps)
engineVars ==
    << particles, staticObjects, sources, sinks, grid, M, K, RHO0, MU, xmin, ymin, xmax,
       ymax, forceVelocityOn, forceVx, forceVy, forceVelocityCell, nextId >>

\* C19: doPhysics called before any init (no grid exists) returns without
\* error and leaves all engine state unchanged: no phase of the tick runs
\* without a grid, so nothing is emitted, drained or moved, and no timestamp of
\* a source or a sink advances.
C19_NoGridNoOp ==
    /\ [](~grid.exists => pc = "idle")
    /\ [][(~grid.exists /\ CallStep("doPhysics")) => UNCHANGED engineVars]_vars

\* doPhysics has returned on an engine without a grid that has a source and a
\* sink
C19_Witness ==
    /\ pc = "idle"
    /\ lastCall = "doPhysics"
    /\ ~grid.exists
    /\ Len(sources) > 0
    /\ Len(sinks) > 0
    /\ ticks = 0

\* C20: init is idempotent when the dimensions are unchanged: init called twice
\* in a row with the same arguments leaves the engine in the state the first
\* call left it in: the same grid object, the same bounds, the same particle,
\* obstacle, source and sink sequences.
C20_InitIdempotent ==
    [][(lastCall = "init" /\ CallStep("init")) =>
          /\ grid' = grid
          /\ UNCHANGED << xmin, ymin, xmax, ymax >>
          /\ Len(particles') = Len(particles)
          /\ \A k \in DOMAIN particles : particles'[k] = particles[k]
          /\ staticObjects' = staticObjects
          /\ sources' = sources
          /\ sinks' = sinks]_vars

-----------------------------------------------------------------------------
(* Properties of the obstacle list                                          *)

\* the sources or sinks of seq that are not attached to the object id
NotAttachedTo(seq, id) == SelectSeq(seq, LAMBDA s : s.staticPlane # id)

\* the sources or sinks of seq that are attached to no plane
Free(seq) == SelectSeq(seq, LAMBDA s : s.staticPlane = 0)

\* the identities of the obstacles, sources and sinks there are
Present ==
    {staticObjects[k].id : k \in DOMAIN staticObjects}
        \cup {sources[k].id : k \in DOMAIN sources}
        \cup {sinks[k].id : k \in DOMAIN sinks}

\* C16: after removeStaticObject(plane) has returned true no source or sink
\* attached to that plane remains, and the sources and sinks not attached to it
\* are unchanged; after clearStaticObjects() the obstacle sequence is empty, no
\* plane-attached source or sink remains, and the unattached ones are unchanged.
C16_AttachedDropped ==
    [][/\ (CallStep("removeStaticObject") /\ result'.x = 1) =>
            /\ \A k \in DOMAIN sources' : sources'[k].staticPlane # result'.arg
            /\ \A k \in DOMAIN sinks' : sinks'[k].staticPlane # result'.arg
            /\ sources' = NotAttachedTo(sources, result'.arg)
            /\ sinks' = NotAttachedTo(sinks, result'.arg)
       /\ CallStep("clearStaticObjects") =>
            /\ Len(staticObjects') = 0
            /\ \A k \in DOMAIN sources' : sources'[k].staticPlane = 0
            /\ \A k \in DOMAIN sinks' : sinks'[k].staticPlane = 0
            /\ sources' = Free(sources)
            /\ sinks' = Free(sinks)]_vars

\* removeStaticObject has returned true for a plane, all identities having been
\* handed out: the plane and at least one source or sink are gone, an obstacle,
\* an unattached source or sink and one attached to another plane are there
C16_Witness ==
    /\ lastCall = "removeStaticObject"
    /\ result.x = 1
    /\ nextId = ObstacleIds + 1
    /\ result.arg \notin Present
    /\ Len(staticObjects) = 1
    /\ Len(sources) + Len(sinks) = 2
    /\ \E k \in DOMAIN sources : sources[k].staticPlane = 0
    /\ \E k \in DOMAIN sinks : sinks[k].staticPlane \notin {0, result.arg}

\* C17: removeStaticObject(o) returns true if and only if o is in the obstacle
\* sequence, in which case exactly one occurrence of o is removed and the order
\* of the other obstacles is kept; when o is absent it returns false and leaves
\* obstacles, sources and sinks unchanged.
C17_RemoveOne ==
    [][CallStep("removeStaticObject") =>
          LET id == result'.arg
              places == {k \in DOMAIN staticObjects : staticObjects[k].id = id}
          IN  /\ result'.type = "boolean"
              /\ result'.x = 1 <=> places # {}
              /\ places # {} =>
                    /\ Len(staticObjects') = Len(staticObjects) - 1
                    /\ \E k \in places :
                          \A j \in DOMAIN staticObjects' :
                              staticObjects'[j] =
                                  IF j < k THEN staticObjects[j] ELSE staticObjects[j + 1]
              /\ places = {} =>
                    /\ result'.x = 0
                    /\ staticObjects' = staticObjects
                    /\ sources' = sources
                    /\ sinks' = sinks]_vars

\* removeStaticObject has returned true for an object that was in the list
\* twice, between two other entries: one occurrence is left, after another
\* obstacle
C17_Witness ==
    /\ lastCall = "removeStaticObject"
    /\ result.x = 1
    /\ Len(staticObjects) = 2
    /\ staticObjects[1].id # result.arg
    /\ staticObjects[2].id = result.arg


-----------------------------------------------------------------------------
(* Properties of the binding of particles to cells                          *)

\* CELL_MAX_PARTICLES (sph.ts:22), scaled down as SIM_MAX_PARTICLES is: init
\* hands it to the grid as the capacity of a cell, and the grid sizes the array
\* of each cell with it (ParticleGrid.ts:12-16)
CELL_MAX_PARTICLES == 2

\* C21: no cell ever holds more than CELL_MAX_PARTICLES particles; a bind into a
\* full cell is dropped and the particle stays in the particle sequence.
C21_CellCapacity ==
    \A c \in DOMAIN grid.cells : Len(grid.cells[c]) <= CELL_MAX_PARTICLES

\* the point lies in the extent [0, w) x [0, h) of the grid
InExtent(px, py) == px >= 0 /\ px < grid.w /\ py >= 0 /\ py < grid.h

\* C22: a particle whose position is outside the extent of the grid when it is
\* bound, on any side, with the other coordinate inside or not, is bound to no
\* cell, and it stays in the particle sequence.
C22_OutsideUnbound ==
    AfterTick =>
        \A k \in DOMAIN particles :
            (~particles[k].nan /\ ~InExtent(particles[k].x, particles[k].y))
                => CellsOf(particles[k].id) = {}

-----------------------------------------------------------------------------
(* The particle count: setNumParticles of the engine object in               *)
(* src/unnamed/part_007, which the viewport calls after init and after       *)
(* clearParticlesOnly                                                        *)

\* the bounds of the model on the count asked for and on the identities
MaxCount == 3
CountIds == 8

\* `bound || fallback`: the fallback when the bound is 0
OrElse(bound, fallback) == IF bound = 0 THEN fallback ELSE bound

\* new Particle() for the four draws of Math.random(): a position in the
\* bounds, or in (0, 0)..(10, 10) where a bound is 0, and a velocity in
\* [-0.5, 0.5) on each axis
Particle(id, draw) ==
    LET pos == randomPos(draw, OrElse(xmin, 0), OrElse(ymin, 0),
                         OrElse(xmax, 10 * FP), OrElse(ymax, 10 * FP))
    IN  [SPHParticle(id, M, pos[1], pos[2]) EXCEPT !.Vx = draw[3] - FP \div 2,
                                                    !.Vy = draw[4] - FP \div 2]

\* setNumParticles without the comparison of the counts
setNumParticlesAlways(n, draws) ==
    /\ pc = "idle"
    /\ particles' = [k \in 1..n |-> Particle(nextId + k - 1, draws[k])]
    /\ nextId' = nextId + n
    /\ lastCall' = "setNumParticles"
    /\ result' = Value(n, "undefined", Len(particles), 0)
    /\ UNCHANGED << staticObjects, sources, sinks, grid, fluidVars, boundVars, forceVars,
                    tickVars >>

\* Engine.setNumParticles(n); result keeps n and the count before the call
setNumParticles(n, draws) ==
    /\ pc = "idle"
    /\ IF Len(particles) # n
       THEN /\ particles' = [k \in 1..n |-> Particle(nextId + k - 1, draws[k])]
            /\ nextId' = nextId + n
       ELSE UNCHANGED << particles, nextId >>
    /\ lastCall' = "setNumParticles"
    /\ result' = Value(n, "undefined", Len(particles), 0)
    /\ UNCHANGED << staticObjects, sources, sinks, grid, fluidVars, boundVars, forceVars,
                    tickVars >>

\* the values Math.random() returns to one new Particle()
CountDraws == { << 50, 50, 50, 50 >>, << 0, 99, 0, 99 >>, << 99, 0, 75, 25 >> }

NextCount ==
    \/ \E a \in InitArgs, draws \in InitDraws : nextId + InitCount <= CountIds /\ init(a, draws)
    \/ \E n \in 0..MaxCount, draws \in [1..MaxCount -> CountDraws] :
           nextId + n <= CountIds /\ setNumParticles(n, draws)
    \/ clearParticlesOnly

SpecCount == Init /\ [][NextCount]_vars

-----------------------------------------------------------------------------
(* Properties of the density pass                                           *)

\* init with one particle close to the right side and one within H of it in the
\* cell below
DriftDraws == { [k \in 1..InitCount |-> << << 99, 50 >>, << 80, 30 >> >>[((k - 1) % 2) + 1]] }

\* the engine over three ticks, with the pointer over the cell of the right side
NextDrift ==
    \/ \E a \in InitArgs, draws \in DriftDraws : init(a, draws)
    \/ \E params \in FluidChoices : setFluidProperties(params)
    \/ \E a \in LifeForceArgs : forceVelocity(a)
    \/ \E d \in ClockSteps : doPhysics(d)
    \/ Emit(NoDraws)
    \/ Steps

SpecDrift == Init /\ [][NextDrift]_vars

\* the particles p and q have positions less than H apart
InRange(p, q) == ~p.nan /\ ~q.nan /\ dist2(p, q) < H2

\* the sum of M * Wpoly6(|p - q|^2) over the particles q of ps from place k on
\* that are in range of the particle p at place i
RECURSIVE SumInRange(_, _, _)
SumInRange(ps, i, k) ==
    IF k > Len(ps) THEN 0
    ELSE (IF k # i /\ InRange(ps[i], ps[k]) THEN Mul(M, Wpoly6(dist2(ps[i], ps[k]))) ELSE 0)
         + SumInRange(ps, i, k + 1)

\* C24: after the density pass of a tick, the density of every particle is its
\* own term, the mass times Wpoly6(0), plus the sum of M * Wpoly6(|p - q|^2) over
\* all the other particles q with |p - q|^2 < H^2; no pair in range is missed
\* because of the cells the two particles are bound to.  (The own term is taken
\* with the mass the particle carries.)
C24_DensitySum ==
    pc = "pressure" =>
        \A i \in DOMAIN particles :
            ~particles[i].nan =>
                particles[i].rho = Mul(particles[i].M, Wpoly6(0)) + SumInRange(particles, i, 1)

-----------------------------------------------------------------------------
(* Properties of the integration                                            *)

\* the particle p is inside no obstacle
Outside(p) == \A n \in DOMAIN staticObjects : ~(distanceTo(staticObjects[n], p.x, p.y) < 0)

\* C25: in the tick that applies a forced-velocity override, each overridden
\* particle is integrated with exactly the forced velocity: no force of that
\* tick (pair pressure, viscosity, boundary repulsion) contributes, so that its
\* position changes by (Vx * dt, Vy * dt) when the forced speed is at most V_MAX
\* and the particle is inside no obstacle.
C25_ForcedDisplacement ==
    [][pc = "integrate" =>
          \A k \in DOMAIN particles :
              ( /\ particles[k].id \in Range(log.forced)
                /\ ~particles[k].nan
                /\ Length(forceVx, forceVy) <= V_MAX
                /\ Outside(particles[k]) )
              => /\ ~particles'[k].nan
                 /\ particles'[k].Vx = forceVx
                 /\ particles'[k].Vy = forceVy
                 /\ particles'[k].x = particles[k].x + TimesDt(forceVx)
                 /\ particles'[k].y = particles[k].y + TimesDt(forceVy)]_vars

\* the particle p as the boundary step of the integration loop finds it, after
\* the obstacle step
AtBoundaryStep(p) == HandleObstacleCollisions(p)

\* C26: the boundary step reflects the velocity of a particle at or beyond a
\* side of the domain: whenever the distance d of a particle to a side is <= 0
\* at the boundary step, the velocity component of that side is negated (Vx for
\* left and right, Vy for top and bottom).
C26_Reflects ==
    pc = "integrate" =>
        \A k \in DOMAIN particles :
            LET q == AtBoundaryStep(particles[k])
                r == HandleBoundaryCollisions(q)
            IN  ~q.nan =>
                    /\ (q.x - xmin <= 0 \/ xmax - q.x <= 0) => r.Vx = -q.Vx
                    /\ (q.y - ymin <= 0 \/ ymax - q.y <= 0) => r.Vy = -q.Vy

\* the arguments d with which the boundary step calls Wspiky_grad2 for the
\* particle q: the distances to the sides that are less than H
RepulsionArgs(q) ==
    { d \in { q.x - xmin, q.y - ymin, ymax - q.y, xmax - q.x } : d < H }

\* C27: every kernel evaluation of a tick respects the preconditions of the
\* kernel: Wpoly6 is called with r^2 < H^2 only, Wspiky_grad2 and Wvisc_lapl
\* with a strictly positive r that does not exceed H (r bumped by 1e-6, no
\* division by zero), in the pair passes and in the boundary repulsion alike.
C27_KernelArguments ==
    /\ pc \in {"density", "forces"} =>
          \A n \in DOMAIN pairwise(grid) :
              LET pair == pairwise(grid)[n]
                  r2 == dist2(particles[IndexOf(particles, pair[1])],
                              particles[IndexOf(particles, pair[2])])
                  r == Max2(Sqrt(r2), 1)
              IN  r2 < H2 => (r > 0 /\ r <= H)
    /\ pc = "integrate" =>
          \A k \in DOMAIN particles :
              LET q == AtBoundaryStep(particles[k])
              IN  ~q.nan => \A d \in RepulsionArgs(q) : d > 0 /\ d <= H

-----------------------------------------------------------------------------
(* Properties of the owners of sources and sinks                            *)

\* the plane with identity id is in the obstacle sequence
IsObstacle(id) == \E n \in DOMAIN staticObjects : staticObjects[n].id = id

\* C28: after any sequence of addStaticObject, removeStaticObject,
\* clearStaticObjects, addParticleSourceFromPlane, addParticleSinkFromPlane and
\* cleanup calls, every source or sink that has an attached plane refers to a
\* plane that is in the obstacle sequence: no source or sink outlives its owner
\* obstacle or exists without it.
C28_AttachedOwned ==
    /\ \A k \in DOMAIN sources :
          sources[k].staticPlane # 0 => IsObstacle(sources[k].staticPlane)
    /\ \A k \in DOMAIN sinks :
          sinks[k].staticPlane # 0 => IsObstacle(sinks[k].staticPlane)

-----------------------------------------------------------------------------
(* Properties of the particle sequence and of the frame of a tick           *)

\* the particle sequences ps and qs hold the same identities in the same order
SameIds(ps, qs) ==
    /\ Len(ps) = Len(qs)
    /\ \A k \in DOMAIN ps : ps[k].id = qs[k].id

\* the identities of ps from place i on are, in this order, among those of qs
\* from place j on
RECURSIVE IsSubsequence(_, _, _, _)
IsSubsequence(ps, i, qs, j) ==
    IF i > Len(ps) THEN TRUE
    ELSE IF j > Len(qs) THEN FALSE
    ELSE IF ps[i].id = qs[j].id THEN IsSubsequence(ps, i + 1, qs, j + 1)
    ELSE IsSubsequence(ps, i, qs, j + 1)

\* C29: within one tick the particle count changes only in the source and the
\* sink phases, by at most one emission per source and one removal per sink;
\* the other phases never add, remove, duplicate or reorder particles, and after
\* the final re-bind each particle is in at most one cell, at most once.
C29_CountAndIdentity ==
    [][ /\ TickStep =>
              \A i, j \in DOMAIN particles' :
                  particles'[i].id = particles'[j].id => i = j
        /\ pc = "idle" /\ TickStep => SameIds(particles', particles)
        /\ pc = "emit" =>
              /\ Len(log'.emit) = Len(sources)
              /\ Len(particles') = Len(particles)
                    + Cardinality({n \in DOMAIN log'.emit : log'.emit[n].pushed # 0})
              /\ SameIds(SubSeq(particles', 1, Len(particles)), particles)
        /\ pc = "drain" =>
              /\ Len(log'.drain) = Len(sinks)
              /\ \A n \in DOMAIN log'.drain : Len(log'.drain[n].removed) <= 1
              /\ Len(particles') = Len(particles)
                    - Cardinality({n \in DOMAIN log'.drain : Len(log'.drain[n].removed) = 1})
              /\ IsSubsequence(particles', 1, particles, 1)
        /\ pc \in {"bind", "density", "pressure", "forces", "forcedVelocity", "gridReset",
                   "integrate"} => SameIds(particles', particles)
        /\ pc = "integrate" =>
              /\ \A c \in DOMAIN grid'.cells :
                    /\ \A m, n \in DOMAIN grid'.cells[c] :
                          grid'.cells[c][m] = grid'.cells[c][n] => m = n
                    /\ \A m \in DOMAIN grid'.cells[c] :
                          /\ IndexOf(particles', grid'.cells[c][m]) # 0
                          /\ \A d \in DOMAIN grid'.cells \ {c} :
                                grid'.cells[c][m] \notin Range(grid'.cells[d])
      ]_vars

\* a complete tick in which a source has emitted a particle and a sink has
\* removed one, and whose final re-bind has put two particles in one cell
C29_Witness ==
    /\ AfterTick
    /\ phases = AllPhases
    /\ \E n \in DOMAIN log.emit : log.emit[n].pushed # 0
    /\ \E n \in DOMAIN log.drain : Len(log.drain[n].removed) = 1
    /\ \E c \in DOMAIN grid.cells : Len(grid.cells[c]) >= 2

\* the sources a and b differ at most in lastSpawnTime
SameSource(a, b) == a = [b EXCEPT !.lastSpawnTime = a.lastSpawnTime]

\* the sinks a and b differ at most in lastVanishTime
SameSink(a, b) == a = [b EXCEPT !.lastVanishTime = a.lastVanishTime]

\* C30: doPhysics leaves unchanged the obstacle sequence, the membership and
\* the order of the sources and of the sinks (all their fields but the
\* timestamps), the domain bounds, the fluid parameters and the dimensions of
\* the grid.
C30_TickFrame ==
    [][(TickStep \/ CallStep("doPhysics")) =>
          /\ staticObjects' = staticObjects
          /\ Len(sources') = Len(sources)
          /\ \A k \in DOMAIN sources : SameSource(sources'[k], sources[k])
          /\ Len(sinks') = Len(sinks)
          /\ \A k \in DOMAIN sinks : SameSink(sinks'[k], sinks[k])
          /\ UNCHANGED << xmin, ymin, xmax, ymax >>
          /\ UNCHANGED << M, K, RHO0, MU >>
          /\ grid'.exists = grid.exists
          /\ grid'.gen = grid.gen
          /\ grid'.nx = grid.nx /\ grid'.ny = grid.ny
          /\ grid'.w = grid.w /\ grid'.h = grid.h]_vars

\* a complete tick of an engine with an obstacle and a source has returned, in
\* which the sink has removed a particle and taken the time of the tick
C30_Witness ==
    /\ AfterTick
    /\ phases = AllPhases
    /\ Len(staticObjects) > 0
    /\ Len(sources) > 0
    /\ Len(log.emit) = Len(sources)
    /\ \E k \in DOMAIN sinks : sinks[k].lastVanishTime = currentTime
    /\ \E n \in DOMAIN log.drain : Len(log.drain[n].removed) = 1

====
